---- MODULE Spec2Model ----
(***************************************************************************)
(* A model of the enrichment pipeline of the YouTube analytics dashboard:  *)
(* identifier extraction (youtube_analyzer.py), the batched, retried and   *)
(* cached metadata fetch (youtube_analyzer.py), table ingest and the       *)
(* per-file pipeline (app.py).                                              *)
(*                                                                         *)
(* Python strings are sequences of one-character strings, so that prefix   *)
(* tests, replacement and pattern matches are computed, not assumed.       *)
(* An Optional value is a sequence of length 0 (None) or 1 (the value).    *)
(***************************************************************************)
EXTENDS Integers, Sequences, FiniteSets, TLC

VARIABLES
    \* ---- extract_video_id, called on one input
    traffic_source,   \* the argument
    extracted,        \* the returned Optional
    xpc               \* "call" before the call, "done" after it

extractVars == <<traffic_source, extracted, xpc>>

VARIABLES
    \* ---- the process: clock, st.cache_data store of get_video_data
    now,              \* wall clock, milliseconds
    cache,            \* key (the video_ids list) -> [value, stored]
    \* ---- one execution of get_video_data
    fpc,              \* "idle" or "run" (inside the batch loop)
    api_key,          \* _self.api_key of the analyzer the call was made on
    video_ids,        \* the argument
    i,                \* offset of the current batch
    attempt,          \* attempt number of the current batch, from 0
    video_data,       \* the mapping built so far
    failed_batches,
    marker,
    \* ---- what the call did and returned
    trace,            \* requests and pauses of the current call, in order
    last_outcome,     \* how the latest request ended
    batch_log,        \* one entry per settled batch of the current call
    result,           \* what the latest call returned: [data, marker]
    hit,              \* whether the latest call was served by st.cache_data
    warned,           \* the failed-batch count of the final st.warning, if shown
    calls,            \* calls of get_video_data made so far
    \* ---- the caller's view of the calls made so far
    started,          \* clock value when the latest call was made
    history,          \* one entry per completed call, in order
    waited            \* whether time was let pass since the latest call

fetchVars == <<now, cache, fpc, api_key, video_ids, i, attempt, video_data,
               failed_batches, marker, trace, last_outcome, batch_log, result,
               hit, warned, calls, started, history, waited>>

VARIABLES
    \* ---- extract_video_data_from_csv, called on one table
    table,            \* data_df: [columns, rows]
    ingested,         \* what the call gave: [video_ids, csv_data, exc, errors_count]
    ipc               \* "call" before the call, "done" after it

ingestVars == <<table, ingested, ipc>>

VARIABLES
    \* ---- main and process_uploaded_files, run once on one set of inputs
    entered_key,      \* the credential: the sidebar's text, or the api_key argument
    source_video_url, \* the reference video URL field
    uploaded_files,   \* the uploaded tables, as read by pd.read_csv
    ppc,              \* "main", "process_call", "files", "fetch_wait" or "done"
    analyzer,         \* the YouTubeAnalyzer built, if any
    file_index,       \* files dealt with so far
    total_rows,
    all_combined_data,
    api_fetch_count,
    cache_fetch_count,
    cur_video_ids,    \* video_ids, csv_data of the file whose fetch is under way
    cur_csv_data,
    run_outcome,          \* how the run ended
    summary,          \* the figures of the final st.success, if shown
    \* ---- what the run did
    files_read,       \* tables read by pd.read_csv
    ref_lookups,      \* times the reference-video lookup (line 258) was entered
    served_ids,       \* identifiers of files whose call was served by st.cache_data
    fetched_ids,      \* identifiers of files whose call executed the fetch
    file_log          \* one entry per file the loop has taken up, in order

pipelineVars == <<entered_key, source_video_url, uploaded_files, ppc, analyzer,
                  file_index, total_rows, all_combined_data, api_fetch_count,
                  cache_fetch_count, cur_video_ids, cur_csv_data, run_outcome, summary,
                  files_read, ref_lookups, served_ids, fetched_ids, file_log>>

VARIABLES
    \* ---- one call of a function that reads nothing but its arguments and
    \* ---- the clock: compare_source_with_video, combine_csv_and_api_data,
    \* ---- categorize_by_date
    call_args,        \* the arguments, a record
    call_result,      \* what the call returned
    cpc               \* "call" before the call, "done" after it

pureVars == <<call_args, call_result, cpc>>

vars == <<extractVars, fetchVars, ingestVars, pipelineVars, pureVars>>

\* what a step of get_video_data leaves alone
nonFetchVars == <<extractVars, ingestVars, pipelineVars, pureVars>>

-----------------------------------------------------------------------------
(* Python values *)

None == << >>
Some(x) == <<x>>

\* str.startswith
startswith(s, p) == Len(s) >= Len(p) /\ SubSeq(s, 1, Len(p)) = p

\* str.replace(old, "") for a non-empty old: every non-overlapping occurrence,
\* scanning from the left, is removed
RECURSIVE str_remove_all(_, _)
str_remove_all(s, old) ==
    IF Len(s) < Len(old) THEN s
    ELSE IF SubSeq(s, 1, Len(old)) = old
         THEN str_remove_all(SubSeq(s, Len(old) + 1, Len(s)), old)
         ELSE <<Head(s)>> \o str_remove_all(Tail(s), old)

RECURSIVE Concat(_)
Concat(ss) == IF ss = << >> THEN << >> ELSE Head(ss) \o Concat(Tail(ss))

-----------------------------------------------------------------------------
(* youtube_analyzer.py: identifiers *)

UpperChars == {"A","B","C","D","E","F","G","H","I","J","K","L","M",
               "N","O","P","Q","R","S","T","U","V","W","X","Y","Z"}
LowerChars == {"a","b","c","d","e","f","g","h","i","j","k","l","m",
               "n","o","p","q","r","s","t","u","v","w","x","y","z"}
DigitChars == {"0","1","2","3","4","5","6","7","8","9"}

\* the character class [A-Za-z0-9_-]
IdChars == UpperChars \cup LowerChars \cup DigitChars \cup {"_", "-"}

\* the {11} of the pattern
IdLen == 11

\* re.fullmatch(r"[A-Za-z0-9_-]{11}", s)
fullmatch_video_id(s) ==
    /\ Len(s) = IdLen
    /\ \A k \in 1..Len(s) : s[k] \in IdChars

\* the literal "YT_RELATED."
YT_RELATED == <<"Y","T","_","R","E","L","A","T","E","D",".">>

extract_video_id(ts) ==
    IF ts = << >> THEN None
    ELSE IF startswith(ts, YT_RELATED)
         THEN LET video_id == str_remove_all(ts, YT_RELATED)
              IN  IF fullmatch_video_id(video_id) THEN Some(video_id) ELSE None
         ELSE None

-----------------------------------------------------------------------------
(* Mappings (Python dicts) as functions with a finite domain *)

EmptyMap == [x \in {} |-> x]
MapPut(m, k, v) == [x \in DOMAIN m \cup {k} |-> IF x = k THEN v ELSE m[x]]

Min(a, b) == IF a < b THEN a ELSE b

\* seq[lo : lo + n] of Python, lo counted from 0
Slice(s, lo, n) == SubSeq(s, lo + 1, Min(lo + n, Len(s)))

SeqToSet(s) == { s[k] : k \in 1..Len(s) }

-----------------------------------------------------------------------------
(* The remote videos API: what it holds for each identifier.  An identifier  *)
(* whose last character is "0" names no video; "1" is live now; "2" was a    *)
(* live stream; "3" comes without title and view count.                      *)

DigitSeq == <<"0","1","2","3","4","5","6","7","8","9">>

DigitValue(c) == CHOOSE d \in 0..9 : DigitSeq[d + 1] = c

LastChar(s) == s[Len(s)]

RemoteExists(id) == LastChar(id) # "0"

RemoteItem(id) ==
    [ id        |-> Some(id),
      title     |-> IF LastChar(id) = "3" THEN None ELSE Some(<<"C","l","i","p">>),
      description |-> Some(<<"a","b","o","u","t">>),
      tags      |-> IF LastChar(id) = "3" THEN None ELSE Some(<< <<"t","a","g">> >>),
      publishedAt |-> IF LastChar(id) \in UpperChars THEN Some(<<"2","0","2","4","-","0","5","-","2","5","T","1","2",":","0","0",":","0","0","Z">>)
                      ELSE IF LastChar(id) \in LowerChars THEN Some(<<"2","0","2","4","-","0","1","-","1","5","T","0","8",":","3","0",":","0","0">>)
                      ELSE Some(<<"2","0","2","4">>),
      viewCount |-> IF LastChar(id) = "3" THEN None ELSE Some(<<"4","2">>),
      thumbnail |-> Some(<<"u","r","l">>),
      liveBroadcastContent |-> IF LastChar(id) = "1" THEN Some("live") ELSE Some("none"),
      liveStreamingDetails |-> LastChar(id) = "2" ]

\* an item without "id", and one whose viewCount is no numeral
ItemWithoutId(id) == [RemoteItem(id) EXCEPT !.id = None]
ItemBadViews(id)  == [RemoteItem(id) EXCEPT !.viewCount = Some(<<"N","/","A">>)]

\* the items the API holds for a batch, in the order asked
RemoteItems(ids) ==
    LET held == SelectSeq(ids, RemoteExists)
    IN  [k \in 1..Len(held) |-> RemoteItem(held[k])]

\* the "items" arrays a response to a batch may carry: all the API holds,
\* none, or a malformed item first or after one good item
ResponseItems(ids) ==
    LET full == RemoteItems(ids)
    IN  { full, << >>, <<ItemWithoutId(ids[1])>> }
        \cup (IF full = << >> THEN {}
              ELSE { <<full[1], ItemBadViews(ids[1])>>, <<full[1], ItemWithoutId(ids[1])>> })

-----------------------------------------------------------------------------
(* youtube_analyzer.py: get_video_data *)

BATCH_SIZE == 50       \* range(0, len(video_ids), 50)

\* mutant: one retry too many
max_retries_four == 3 + 1

max_retries == 3
TTL_MS == 3600000      \* ttl=3600, in milliseconds
RATE_LIMIT_MS == 100   \* time.sleep(0.1)
BACKOFF_BASE_MS == 1000 \* time.sleep(2 ** attempt), in milliseconds

RECURSIVE Pow2(_)
Pow2(n) == IF n = 0 THEN 1 ELSE 2 * Pow2(n - 1)

\* the marker: a float (time.time(), 0.0) or a string (nextPageToken, "")
FloatMarker(t) == [kind |-> "float", val |-> t]
StrMarker(s) == [kind |-> "str", val |-> s]
Truthy(m) == IF m.kind = "float" THEN m.val # 0 ELSE m.val # << >>

\* int(x) of a decimal numeral; None stands for the ValueError
RECURSIVE ParseDigits(_, _)
ParseDigits(s, acc) ==
    IF s = << >> THEN Some(acc)
    ELSE IF Head(s) \in DigitChars
         THEN ParseDigits(Tail(s), 10 * acc + DigitValue(Head(s)))
         ELSE None
ParseInt(s) == IF s = << >> THEN None ELSE ParseDigits(s, 0)

OrDefault(opt, d) == IF opt = None THEN d ELSE opt[1]

UnknownTitle == <<"U","n","k","n","o","w","n"," ","T","i","t","l","e">>

\* the dict built for one item (lines 83-97); the item is known to convert
ItemRecord(item) ==
    LET is_live == OrDefault(item.liveBroadcastContent, "none") = "live"
                   \/ item.liveStreamingDetails
    IN  [ title |-> OrDefault(item.title, UnknownTitle),
          description |-> OrDefault(item.description, << >>),
          tags |-> OrDefault(item.tags, << >>),
          published_at |-> OrDefault(item.publishedAt, << >>),
          view_count |-> IF item.viewCount = None THEN 0 ELSE ParseInt(item.viewCount[1])[1],
          thumbnail_url |-> OrDefault(item.thumbnail, << >>),
          content_type |-> IF is_live THEN "Live" ELSE "Long form" ]

\* whether lines 82-97 raise on the item: KeyError of item["id"], ValueError of int()
ItemRaises(item) ==
    \/ item.id = None
    \/ item.viewCount # None /\ ParseInt(item.viewCount[1]) = None

\* the loop over the items (lines 81-97): stores each item until one raises;
\* a later item with the same id overwrites an earlier one
StoreItems(vd, items) ==
    LET raising == { k \in 1..Len(items) : ItemRaises(items[k]) }
        stop == IF raising = {} THEN Len(items) + 1
                ELSE CHOOSE k \in raising : \A j \in raising : k <= j
        at(x) == { k \in 1..(stop - 1) : items[k].id[1] = x }
        last(x) == CHOOSE k \in at(x) : \A j \in at(x) : j <= k
    IN  [ data |-> [x \in DOMAIN vd \cup { items[k].id[1] : k \in 1..(stop - 1) } |->
                      IF at(x) # {} THEN ItemRecord(items[last(x)]) ELSE vd[x]],
          raised |-> raising # {} ]

\* mutant: the slice takes one identifier of the next batch too
batch_ids_overlapping == Slice(video_ids, i, BATCH_SIZE + 1)

batch_ids == Slice(video_ids, i, BATCH_SIZE)

\* session.get(base_url, params=params): one remote request
Request == [ev |-> "request", offset |-> i, ids |-> batch_ids, key |-> api_key]
Pause(ms) == [ev |-> "sleep", ms |-> ms]

\* the st.cache_data wrapper: an entry younger than the ttl is served
\* mutant: the key is the set of identifiers, whatever their order
CacheKey_unordered(ids) == SeqToSet(ids)

\* the key is made of the arguments but _self: the list, in its order
CacheKey(ids) == ids
CacheFresh(key) == key \in DOMAIN cache /\ now < cache[key].stored + TTL_MS

\* the for loop moves on to the next batch
NextBatch(status, cause, items) ==
    /\ i' = i + BATCH_SIZE
    /\ attempt' = 0
    /\ batch_log' = Append(batch_log, [offset |-> i, ids |-> batch_ids, status |-> status,
                                        cause |-> cause, attempts |-> attempt + 1,
                                        items |-> items])

\* the batches of a log counted as failed: their identifiers and the cause
FailedBatches(log) ==
    LET failed == SelectSeq(log, LAMBDA b : b.status = "failed")
    IN  [k \in 1..Len(failed) |-> [ids |-> failed[k].ids, cause |-> failed[k].cause]]

\* what the caller saw of one completed call; at is the clock value at its
\* return, failed the batches the call gave up (none when served from the cache)
Completed(ids, key, start, was_hit, requests, res, log) ==
    [ids |-> ids, key |-> key, start |-> start, at |-> now, hit |-> was_hit,
     requests |-> requests, result |-> res, failed |-> FailedBatches(log)]

RequestCount(tr) == Len(SelectSeq(tr, LAMBDA e : e.ev = "request"))

\* a call of get_video_data on an analyzer holding key, up to the first request
GetVideoData(key, ids) ==
    /\ fpc = "idle"
    /\ calls' = calls + 1
    /\ api_key' = key
    /\ video_ids' = ids
    /\ trace' = << >>
    /\ last_outcome' = "none"
    /\ batch_log' = << >>
    /\ warned' = None
    /\ i' = 0
    /\ attempt' = 0
    /\ failed_batches' = 0
    /\ started' = now
    /\ waited' = FALSE
    /\ UNCHANGED now
    /\ IF CacheFresh(CacheKey(ids))
       THEN /\ hit' = TRUE
            /\ result' = cache[CacheKey(ids)].value
            /\ history' = Append(history, Completed(ids, key, now, TRUE, 0, result', << >>))
            /\ UNCHANGED <<cache, fpc, video_data, marker>>
       ELSE /\ hit' = FALSE
            /\ IF ids = << >>
               THEN /\ result' = [data |-> EmptyMap, marker |-> FloatMarker(0)]
                    /\ cache' = MapPut(cache, CacheKey(ids),
                                       [value |-> result', stored |-> now])
                    /\ history' = Append(history,
                                         Completed(ids, key, now, FALSE, 0, result', << >>))
                    /\ UNCHANGED <<fpc, video_data, marker>>
               ELSE /\ fpc' = "run"
                    /\ video_data' = EmptyMap
                    /\ marker' = FloatMarker(now)
                    /\ UNCHANGED <<cache, result, history>>

InBatch == fpc = "run" /\ i < Len(video_ids)

\* mutant: the pause is taken after the last attempt too
AttemptRetryable_PauseAfterLast(outcome) ==
    /\ InBatch
    /\ trace' = trace \o <<Request, Pause(BACKOFF_BASE_MS * Pow2(attempt))>>
    /\ last_outcome' = outcome
    /\ now' = now + BACKOFF_BASE_MS * Pow2(attempt)
    /\ IF attempt = max_retries - 1
       THEN /\ failed_batches' = failed_batches + 1
            /\ NextBatch("failed", "exhausted", << >>)
       ELSE /\ attempt' = attempt + 1
            /\ UNCHANGED <<failed_batches, i, batch_log>>
    /\ UNCHANGED <<cache, fpc, api_key, video_ids, video_data, marker, result,
                   hit, warned, calls>>
    /\ UNCHANGED <<started, history, waited>>
    /\ UNCHANGED nonFetchVars

\* the request times out, or fails with another RequestException (a refused
\* connection, an HTTP error status, a body that is no JSON)
AttemptRetryable(outcome) ==
    /\ InBatch
    /\ trace' = IF attempt = max_retries - 1
                THEN Append(trace, Request)
                ELSE trace \o <<Request, Pause(BACKOFF_BASE_MS * Pow2(attempt))>>
    /\ last_outcome' = outcome
    /\ IF attempt = max_retries - 1
       THEN /\ failed_batches' = failed_batches + 1
            /\ NextBatch("failed", "exhausted", << >>)
            /\ UNCHANGED now
       ELSE /\ now' = now + BACKOFF_BASE_MS * Pow2(attempt)
            /\ attempt' = attempt + 1
            /\ UNCHANGED <<failed_batches, i, batch_log>>
    /\ UNCHANGED <<cache, fpc, api_key, video_ids, video_data, marker, result,
                   hit, warned, calls>>
    /\ UNCHANGED <<started, history, waited>>
    /\ UNCHANGED nonFetchVars

AttemptTimeout == AttemptRetryable("timeout")

AttemptRequestException == AttemptRetryable("request_exception")

\* mutant: the error payload is retried like a transport failure
AttemptErrorPayload_Retried == AttemptRetryable("error_payload")

\* mutant: the batch is given up but not counted
AttemptErrorPayload_Uncounted ==
    /\ InBatch
    /\ trace' = Append(trace, Request)
    /\ last_outcome' = "error_payload"
    /\ NextBatch("failed", "error_payload", << >>)
    /\ UNCHANGED <<now, cache, fpc, api_key, video_ids, video_data, marker,
                   result, hit, warned, calls, failed_batches>>
    /\ UNCHANGED <<started, history, waited>>
    /\ UNCHANGED nonFetchVars

\* the body carries an "error" object
AttemptErrorPayload ==
    /\ InBatch
    /\ trace' = Append(trace, Request)
    /\ last_outcome' = "error_payload"
    /\ failed_batches' = failed_batches + 1
    /\ NextBatch("failed", "error_payload", << >>)
    /\ UNCHANGED <<now, cache, fpc, api_key, video_ids, video_data, marker,
                   result, hit, warned, calls>>
    /\ UNCHANGED <<started, history, waited>>
    /\ UNCHANGED nonFetchVars

\* the body carries "items" (and possibly a nextPageToken)
AttemptItems ==
    /\ InBatch
    /\ \E items \in ResponseItems(batch_ids), token \in {<< >>, <<"T">>} :
         /\ trace' = Append(trace, Request)
         /\ IF items = << >> /\ Len(batch_ids) <= Cardinality(DOMAIN video_data)
            THEN \* lines 76-79
                 /\ marker' = StrMarker(token)
                 /\ last_outcome' = "items"
                 /\ NextBatch("ok", "assumed_cached", items)
                 /\ UNCHANGED <<now, video_data, failed_batches>>
            ELSE LET stored == StoreItems(video_data, items)
                 IN  /\ token = << >>
                     /\ video_data' = stored.data
                     /\ IF stored.raised
                        THEN /\ last_outcome' = "malformed_item"
                             /\ failed_batches' = failed_batches + 1
                             /\ NextBatch("failed", "malformed_item", items)
                             /\ UNCHANGED now
                        ELSE /\ last_outcome' = "items"
                             /\ now' = now + RATE_LIMIT_MS
                             /\ NextBatch("ok", "items", items)
                             /\ UNCHANGED failed_batches
                     /\ UNCHANGED marker
    /\ UNCHANGED <<cache, fpc, api_key, video_ids, result, hit, warned, calls>>
    /\ UNCHANGED <<started, history, waited>>
    /\ UNCHANGED nonFetchVars

\* mutant: a result with failed batches is returned but not stored
Return_KeepsOnlyCompleteResults ==
    /\ fpc = "run"
    /\ i >= Len(video_ids)
    /\ warned' = IF failed_batches > 0 THEN Some(failed_batches) ELSE None
    /\ result' = [data |-> video_data, marker |-> marker]
    /\ cache' = IF failed_batches > 0 THEN cache
              ELSE MapPut(cache, CacheKey(video_ids), [value |-> result', stored |-> now])
    /\ fpc' = "idle"
    /\ history' = Append(history, Completed(video_ids, api_key, started, FALSE,
                                            RequestCount(trace), result', batch_log))
    /\ UNCHANGED <<now, api_key, video_ids, i, attempt, video_data,
                   failed_batches, marker, trace, last_outcome, batch_log, hit, calls>>
    /\ UNCHANGED <<started, waited>>
    /\ UNCHANGED nonFetchVars

\* after the last batch: the warning, the return, and st.cache_data's store
Return ==
    /\ fpc = "run"
    /\ i >= Len(video_ids)
    /\ warned' = IF failed_batches > 0 THEN Some(failed_batches) ELSE None
    /\ result' = [data |-> video_data, marker |-> marker]
    /\ cache' = MapPut(cache, CacheKey(video_ids), [value |-> result', stored |-> now])
    /\ fpc' = "idle"
    /\ history' = Append(history, Completed(video_ids, api_key, started, FALSE,
                                            RequestCount(trace), result', batch_log))
    /\ UNCHANGED <<now, api_key, video_ids, i, attempt, video_data,
                   failed_batches, marker, trace, last_outcome, batch_log, hit, calls>>
    /\ UNCHANGED <<started, waited>>
    /\ UNCHANGED nonFetchVars

StartTime == 1000

API_KEY_1 == [k \in 1..20 |-> "k"]

InitFetchVars ==
    /\ now = StartTime
    /\ cache = EmptyMap
    /\ fpc = "idle"
    /\ api_key = << >>
    /\ video_ids = << >>
    /\ i = 0
    /\ attempt = 0
    /\ video_data = EmptyMap
    /\ failed_batches = 0
    /\ marker = FloatMarker(0)
    /\ trace = << >>
    /\ last_outcome = "none"
    /\ batch_log = << >>
    /\ result = [data |-> EmptyMap, marker |-> FloatMarker(0)]
    /\ hit = FALSE
    /\ warned = None
    /\ calls = 0
    /\ started = StartTime
    /\ history = << >>
    /\ waited = FALSE

-----------------------------------------------------------------------------
(* Cell values of a DataFrame and the Python values made from them: an int,  *)
(* a float (kept in tenths), NaN, an infinity (v is its sign) or a string    *)

PyInt(n) == [t |-> "int", v |-> n]
PyFloat(tenths) == [t |-> "float", v |-> tenths]
PyNaN == [t |-> "nan", v |-> 0]
PyInf(sign) == [t |-> "inf", v |-> sign]
PyStr(s) == [t |-> "str", v |-> s]

\* decimal digits of n >= 0
RECURSIVE Digits(_)
Digits(n) == IF n < 10 THEN <<DigitSeq[n + 1]>>
             ELSE Digits(n \div 10) \o <<DigitSeq[(n % 10) + 1]>>

Abs(n) == IF n < 0 THEN -n ELSE n

\* str(value)
py_str(c) ==
    CASE c.t = "str" -> c.v
      [] c.t = "int" -> (IF c.v < 0 THEN <<"-">> ELSE << >>) \o Digits(Abs(c.v))
      [] c.t = "float" -> (IF c.v < 0 THEN <<"-">> ELSE << >>)
                          \o Digits(Abs(c.v) \div 10) \o <<".">> \o Digits(Abs(c.v) % 10)
      [] c.t = "nan" -> <<"n","a","n">>
      [] c.t = "inf" -> (IF c.v < 0 THEN <<"-">> ELSE << >>) \o <<"i","n","f">>

\* pd.notna(value)
notna(c) == c.t # "nan"

\* bool(value)
py_truthy(c) ==
    CASE c.t = "str" -> c.v # << >>
      [] c.t \in {"int", "float"} -> c.v # 0
      [] OTHER -> TRUE

\* float(value): a float, NaN or an infinity; [t |-> "ValueError"] when a
\* string is no number.  A numeric string is an optional "-", digits, and
\* optionally "." and one digit; "nan" and "inf" are accepted as Python does.
py_float(c) ==
    CASE c.t = "int" -> PyFloat(10 * c.v)
      [] c.t \in {"float", "nan", "inf"} -> c
      [] c.t = "str" ->
           LET neg == c.v # << >> /\ Head(c.v) = "-"
               body == IF neg THEN Tail(c.v) ELSE c.v
               sign == IF neg THEN -1 ELSE 1
               dot == { k \in 1..Len(body) : body[k] = "." }
           IN  IF body = <<"n","a","n">> THEN PyNaN
               ELSE IF body = <<"i","n","f">> THEN PyInf(sign)
               ELSE IF dot = {}
                    THEN IF ParseInt(body) = None THEN [t |-> "ValueError", v |-> 0]
                         ELSE PyFloat(sign * 10 * ParseInt(body)[1])
               ELSE IF dot = {Len(body) - 1}
                       /\ ParseInt(SubSeq(body, 1, Len(body) - 2)) # None
                       /\ body[Len(body)] \in DigitChars
                    THEN PyFloat(sign * (10 * ParseInt(SubSeq(body, 1, Len(body) - 2))[1]
                                         + DigitValue(body[Len(body)])))
               ELSE [t |-> "ValueError", v |-> 0]

\* int(x) of a float: truncation toward zero; an infinity raises
\* OverflowError and NaN raises ValueError
py_int_of_float(f) ==
    CASE f.t = "float" -> PyInt(IF f.v < 0 THEN -((-f.v) \div 10) ELSE f.v \div 10)
      [] f.t = "inf" -> [t |-> "OverflowError", v |-> 0]
      [] OTHER -> [t |-> "ValueError", v |-> 0]

-----------------------------------------------------------------------------
(* app.py: table ingest *)

UpperSeq == <<"A","B","C","D","E","F","G","H","I","J","K","L","M",
              "N","O","P","Q","R","S","T","U","V","W","X","Y","Z">>
LowerSeq == <<"a","b","c","d","e","f","g","h","i","j","k","l","m",
              "n","o","p","q","r","s","t","u","v","w","x","y","z">>

\* str.lower
lower_char(c) == IF c \in UpperChars
                 THEN LowerSeq[CHOOSE k \in 1..26 : UpperSeq[k] = c]
                 ELSE c
lower(s) == [k \in 1..Len(s) |-> lower_char(s[k])]

\* _safe_int_conversion: ValueError and TypeError give 0, OverflowError escapes
safe_int_conversion(value) ==
    IF notna(value) /\ py_truthy(value)
    THEN LET f == py_float(value)
             n == IF f.t = "ValueError" THEN f ELSE py_int_of_float(f)
         IN  IF n.t = "ValueError" THEN PyInt(0) ELSE n
    ELSE PyInt(0)

\* _safe_float_conversion
safe_float_conversion(value) ==
    IF notna(value) /\ py_truthy(value)
    THEN LET f == py_float(value)
         IN  IF f.t = "ValueError" THEN PyFloat(0) ELSE f
    ELSE PyFloat(0)

\* _find_column_by_name: the dict of lowered names keeps the last column of
\* each lowered name; the first possible name found in it decides
find_column_by_name(df, possible_names) ==
    LET cols == df.columns
        columns_lower(nm) ==
            LET at == { k \in 1..Len(cols) : lower(cols[k]) = nm }
            IN  IF at = {} THEN None
                ELSE Some(cols[CHOOSE k \in at : \A j \in at : j <= k])
        found == { k \in 1..Len(possible_names) :
                     columns_lower(lower(possible_names[k])) # None }
    IN  IF found = {} THEN None
        ELSE columns_lower(lower(possible_names[CHOOSE k \in found : \A j \in found : k <= j]))

\* row[col]
cell(df, row, col) == row[CHOOSE k \in 1..Len(df.columns) : df.columns[k] = col]

TRAFFIC_NAMES == << <<"t","r","a","f","f","i","c"," ","s","o","u","r","c","e">>, <<"t","r","a","f","f","i","c","s","o","u","r","c","e">>, <<"s","o","u","r","c","e">> >>
IMPRESSIONS_NAMES == << <<"i","m","p","r","e","s","s","i","o","n","s">> >>
CTR_NAMES == << <<"i","m","p","r","e","s","s","i","o","n","s"," ","c","l","i","c","k","-","t","h","r","o","u","g","h"," ","r","a","t","e"," ","(","%",")">>, <<"i","m","p","r","e","s","s","i","o","n","s"," ","c","l","i","c","k","-","t","h","r","o","u","g","h"," ","r","a","t","e">>,
                <<"c","t","r">>, <<"c","t","r"," ","(","%",")">> >>
VIEWS_NAMES == << <<"v","i","e","w","s">> >>
AVG_DURATION_NAMES == << <<"a","v","e","r","a","g","e"," ","v","i","e","w"," ","d","u","r","a","t","i","o","n">>, <<"a","v","g"," ","v","i","e","w"," ","d","u","r","a","t","i","o","n">>, <<"a","v","g"," ","d","u","r","a","t","i","o","n">> >>
WATCH_TIME_NAMES == << <<"w","a","t","c","h"," ","t","i","m","e"," ","(","h","o","u","r","s",")">>, <<"w","a","t","c","h"," ","t","i","m","e">>, <<"w","a","t","c","h"," ","t","i","m","e"," ","h","o","u","r","s">> >>

ZeroDuration == <<"0",":","0","0">>

\* the record of one row (lines 100-107); exc names an exception that no
\* handler of the row loop catches
row_record(df, row, video_id) ==
    LET col(names) == find_column_by_name(df, names)
        int_of(names) == IF col(names) # None
                         THEN safe_int_conversion(cell(df, row, col(names)[1]))
                         ELSE PyInt(0)
        float_of(names) == IF col(names) # None
                           THEN safe_float_conversion(cell(df, row, col(names)[1]))
                           ELSE PyFloat(0)
        impressions == int_of(IMPRESSIONS_NAMES)
        csv_views == int_of(VIEWS_NAMES)
        dur == col(AVG_DURATION_NAMES)
    IN  [ exc |-> IF impressions.t = "OverflowError" \/ csv_views.t = "OverflowError"
                  THEN "OverflowError" ELSE "none",
          rec |-> [ video_id |-> video_id,
                    impressions |-> impressions,
                    impressions_ctr |-> float_of(CTR_NAMES),
                    csv_views |-> csv_views,
                    average_view_duration |->
                        IF dur # None /\ notna(cell(df, row, dur[1]))
                           /\ py_truthy(cell(df, row, dur[1]))
                        THEN py_str(cell(df, row, dur[1])) ELSE ZeroDuration,
                    watch_time_hours |-> float_of(WATCH_TIME_NAMES) ] ]

\* mutant: no test for an identifier seen before; a later row overwrites the
\* record and appends the identifier again
RECURSIVE ingest_rows_no_dedup(_, _, _, _)
ingest_rows_no_dedup(df, k, ids, data) ==
    IF k > Len(df.rows)
    THEN [video_ids |-> ids, csv_data |-> data, exc |-> "none", errors_count |-> 0]
    ELSE LET row == df.rows[k]
             traffic == py_str(cell(df, row, find_column_by_name(df, TRAFFIC_NAMES)[1]))
             video_id == extract_video_id(traffic)
         IN  IF video_id # None
             THEN ingest_rows_no_dedup(df, k + 1, Append(ids, video_id[1]),
                      MapPut(data, video_id[1], row_record(df, row, video_id[1]).rec))
             ELSE ingest_rows_no_dedup(df, k + 1, ids, data)

\* the row loop (lines 91-112) from row k on.  No statement of the loop body
\* raises one of the four exceptions its handler catches, so errors_count
\* stays 0; an OverflowError of a conversion ends the call.
RECURSIVE ingest_rows(_, _, _, _)
ingest_rows(df, k, ids, data) ==
    IF k > Len(df.rows)
    THEN [video_ids |-> ids, csv_data |-> data, exc |-> "none", errors_count |-> 0]
    ELSE LET row == df.rows[k]
             traffic == py_str(cell(df, row, find_column_by_name(df, TRAFFIC_NAMES)[1]))
             video_id == extract_video_id(traffic)
         IN  IF video_id # None /\ video_id[1] \notin DOMAIN data
             THEN LET r == row_record(df, row, video_id[1])
                  IN  IF r.exc # "none"
                      THEN [video_ids |-> Append(ids, video_id[1]), csv_data |-> data,
                            exc |-> r.exc, errors_count |-> 0]
                      ELSE ingest_rows(df, k + 1, Append(ids, video_id[1]),
                                       MapPut(data, video_id[1], r.rec))
             ELSE ingest_rows(df, k + 1, ids, data)

\* extract_video_data_from_csv.  Its st.cache_data(ttl=1800) wrapper is keyed
\* by the table and the function reads nothing else, so a cached answer is
\* the answer computed here.
extract_video_data_from_csv(df) ==
    IF find_column_by_name(df, TRAFFIC_NAMES) = None
    THEN [video_ids |-> << >>, csv_data |-> EmptyMap, exc |-> "none", errors_count |-> 0]
    ELSE ingest_rows(df, 1, << >>, EmptyMap)

InitIngestVars ==
    /\ table = [columns |-> << >>, rows |-> << >>]
    /\ ingested = [video_ids |-> << >>, csv_data |-> EmptyMap, exc |-> "none",
                   errors_count |-> 0]
    /\ ipc = "done"

-----------------------------------------------------------------------------
(* youtube_analyzer.py: categorize_by_date.  The clock now counts            *)
(* milliseconds from ClockEpoch, 00:00 UTC; the process runs in UTC.         *)

ClockEpoch == [y |-> 2024, m |-> 6, d |-> 1]

DAY_MS == 86400000

IsLeap(y) == (y % 4 = 0 /\ y % 100 # 0) \/ y % 400 = 0

DaysInMonth(y, m) ==
    IF m = 2 THEN (IF IsLeap(y) THEN 29 ELSE 28)
    ELSE IF m \in {4, 6, 9, 11} THEN 30 ELSE 31

\* days from 1970-01-01 to the date (proleptic Gregorian calendar)
DaysFromCivil(y, m, d) ==
    LET yy == IF m <= 2 THEN y - 1 ELSE y
        era == yy \div 400
        yoe == yy - era * 400
        mp == IF m > 2 THEN m - 3 ELSE m + 9
        doy == (153 * mp + 2) \div 5 + d - 1
        doe == yoe * 365 + yoe \div 4 - yoe \div 100 + doy
    IN  era * 146097 + doe - 719468

\* a field of decimal digits below a limit, or None
NumField(s, a, b, limit) ==
    LET v == ParseInt(SubSeq(s, a, b))
    IN  IF v # None /\ v[1] < limit THEN v ELSE None

\* datetime.fromisoformat for the forms YYYY-MM-DD, YYYY-MM-DD?HH:MM:SS and
\* YYYY-MM-DD?HH:MM:SS+HH:MM (? is any character); None stands for the
\* ValueError.  The value is the instant in UTC: day number and millisecond
\* of the day, and whether the string carried an offset.
fromisoformat(s) ==
    LET n == Len(s)
        y == NumField(s, 1, 4, 10000)
        mo == NumField(s, 6, 7, 13)
        d == NumField(s, 9, 10, 32)
        dateOk == /\ n >= 10
                  /\ s[5] = "-" /\ s[8] = "-"
                  /\ y # None /\ mo # None /\ d # None
                  /\ y[1] >= 1 /\ mo[1] >= 1
                  /\ d[1] >= 1 /\ d[1] <= DaysInMonth(y[1], mo[1])
        hh == NumField(s, 12, 13, 24)
        mi == NumField(s, 15, 16, 60)
        ss == NumField(s, 18, 19, 60)
        timeOk == /\ n >= 19
                  /\ s[14] = ":" /\ s[17] = ":"
                  /\ hh # None /\ mi # None /\ ss # None
        oh == NumField(s, 21, 22, 24)
        om == NumField(s, 24, 25, 60)
        offOk == /\ n = 25
                 /\ s[20] \in {"+", "-"} /\ s[23] = ":"
                 /\ oh # None /\ om # None
        day == DaysFromCivil(y[1], mo[1], d[1])
        local == hh[1] * 3600000 + mi[1] * 60000 + ss[1] * 1000
        off == (IF s[20] = "-" THEN -1 ELSE 1) * (oh[1] * 3600000 + om[1] * 60000)
        utc == local - off
    IN  IF ~dateOk THEN None
        ELSE IF n = 10 THEN Some([day |-> day, ms |-> 0, aware |-> FALSE])
        ELSE IF n = 19 /\ timeOk THEN Some([day |-> day, ms |-> local, aware |-> FALSE])
        ELSE IF timeOk /\ offOk
             THEN Some([day |-> day + utc \div DAY_MS, ms |-> utc % DAY_MS, aware |-> TRUE])
        ELSE None

\* str.replace("Z", "+00:00")
replace_Z(s) ==
    Concat([k \in 1..Len(s) |-> IF s[k] = "Z" THEN <<"+","0","0",":","0","0">> ELSE <<s[k]>>])

\* (now - pub_date).days: whole days, rounded down
days_diff(pub) ==
    LET now_day == DaysFromCivil(ClockEpoch.y, ClockEpoch.m, ClockEpoch.d) + now \div DAY_MS
        now_ms == now % DAY_MS
    IN  now_day - pub.day - (IF now_ms < pub.ms THEN 1 ELSE 0)

\* mutant: the edges 14, 28 and 90 fall into the older bucket
categorize_by_date_exclusive_edges(published_date) ==
    IF published_date = << >> THEN "Unknown"
    ELSE LET pub_date == IF LastChar(published_date) = "Z"
                         THEN fromisoformat(replace_Z(published_date))
                         ELSE fromisoformat(published_date)
         IN  IF pub_date = None THEN "Unknown"
             ELSE IF days_diff(pub_date[1]) < 14 THEN "Last 2 weeks"
             ELSE IF days_diff(pub_date[1]) < 28 THEN "2-4 weeks ago"
             ELSE IF days_diff(pub_date[1]) < 90 THEN "1-3 months ago"
             ELSE "More than 3 months ago"

categorize_by_date(published_date) ==
    IF published_date = << >> THEN "Unknown"
    ELSE LET pub_date == IF LastChar(published_date) = "Z"
                         THEN fromisoformat(replace_Z(published_date))
                         ELSE fromisoformat(published_date)
         IN  IF pub_date = None THEN "Unknown"
             ELSE IF days_diff(pub_date[1]) <= 14 THEN "Last 2 weeks"
             ELSE IF days_diff(pub_date[1]) <= 28 THEN "2-4 weeks ago"
             ELSE IF days_diff(pub_date[1]) <= 90 THEN "1-3 months ago"
             ELSE "More than 3 months ago"

-----------------------------------------------------------------------------
(* youtube_analyzer.py: compare_source_with_video.  A dict is a record, or   *)
(* a function of a finite set of keys; the empty dict and None are both      *)
(* << >>, and both are false in a condition.                                 *)

\* the printable ASCII characters in code point order, from " " (32); the
\* grave accent (96) is named, no text here holds it
CodePoints == <<
    " ","!","\"","#","$","%","&","'","(",")","*","+",",","-",".","/",
    "0","1","2","3","4","5","6","7","8","9",":",";","<","=",">","?",
    "@","A","B","C","D","E","F","G","H","I","J","K","L","M","N","O",
    "P","Q","R","S","T","U","V","W","X","Y","Z","[","\\","]","^","_",
    "grave","a","b","c","d","e","f","g","h","i","j","k","l","m","n","o",
    "p","q","r","s","t","u","v","w","x","y","z","{","|","}","~" >>

ord(c) == 31 + CHOOSE k \in DOMAIN CodePoints : CodePoints[k] = c

\* a < b for two str: the first differing character decides, a proper
\* prefix comes first
str_lt(a, b) ==
    LET differ == { k \in 1..Min(Len(a), Len(b)) : a[k] # b[k] }
    IN  IF differ = {} THEN Len(a) < Len(b)
        ELSE LET k == CHOOSE d \in differ : \A e \in differ : d <= e
             IN  ord(a[k]) < ord(b[k])

\* sorted(set of str)
RECURSIVE sorted(_)
sorted(S) ==
    IF S = {} THEN << >>
    ELSE LET first == CHOOSE x \in S : \A y \in S : x = y \/ str_lt(x, y)
         IN  <<first>> \o sorted(S \ {first})

\* sep.join(list of str)
RECURSIVE join(_, _)
join(sep, ss) ==
    IF ss = << >> THEN << >>
    ELSE IF Len(ss) = 1 THEN ss[1]
    ELSE ss[1] \o sep \o join(sep, Tail(ss))

AlnumChars == UpperChars \cup LowerChars \cup DigitChars

\* re.findall(r"[a-zA-Z0-9]+", s): the maximal runs, left to right; cur is
\* the run being read
RECURSIVE findall_alnum(_, _)
findall_alnum(s, cur) ==
    IF s = << >> THEN (IF cur = << >> THEN << >> ELSE <<cur>>)
    ELSE IF Head(s) \in AlnumChars THEN findall_alnum(Tail(s), Append(cur, Head(s)))
    ELSE (IF cur = << >> THEN << >> ELSE <<cur>>) \o findall_alnum(Tail(s), << >>)

\* _normalize_text
normalize_text(text) ==
    IF text = << >> THEN << >> ELSE findall_alnum(lower(text), << >>)

\* dict.get(key, default)
dict_get(dct, key, default) == IF key \in DOMAIN dct THEN dct[key] ELSE default

CommaSpace == <<",", " ">>

\* mutant: the tags told as different are the reference's tags the video lacks
compare_source_with_video_swapped(source_meta, video) ==
    IF source_meta = << >>
    THEN [common_title_words |-> << >>, common_description_words |-> << >>,
          common_tags |-> << >>, different_tags |-> << >>]
    ELSE LET source_title_words ==
                 SeqToSet(normalize_text(dict_get(source_meta, "title", << >>)))
             source_description_words ==
                 SeqToSet(normalize_text(dict_get(source_meta, "description", << >>)))
             source_tags ==
                 { lower(tag) : tag \in SeqToSet(dict_get(source_meta, "tags", << >>)) }
             video_title_words == SeqToSet(normalize_text(dict_get(video, "title", << >>)))
             video_description_words ==
                 SeqToSet(normalize_text(dict_get(video, "description", << >>)))
             video_tags == { lower(tag) : tag \in SeqToSet(dict_get(video, "tags", << >>)) }
         IN  [common_title_words |->
                  join(CommaSpace, sorted(source_title_words \cap video_title_words)),
              common_description_words |->
                  join(CommaSpace,
                       sorted(source_description_words \cap video_description_words)),
              common_tags |-> join(CommaSpace, sorted(source_tags \cap video_tags)),
              different_tags |-> join(CommaSpace, sorted(source_tags \ video_tags))]

compare_source_with_video(source_meta, video) ==
    IF source_meta = << >>
    THEN [common_title_words |-> << >>, common_description_words |-> << >>,
          common_tags |-> << >>, different_tags |-> << >>]
    ELSE LET source_title_words ==
                 SeqToSet(normalize_text(dict_get(source_meta, "title", << >>)))
             source_description_words ==
                 SeqToSet(normalize_text(dict_get(source_meta, "description", << >>)))
             source_tags ==
                 { lower(tag) : tag \in SeqToSet(dict_get(source_meta, "tags", << >>)) }
             video_title_words == SeqToSet(normalize_text(dict_get(video, "title", << >>)))
             video_description_words ==
                 SeqToSet(normalize_text(dict_get(video, "description", << >>)))
             video_tags == { lower(tag) : tag \in SeqToSet(dict_get(video, "tags", << >>)) }
         IN  [common_title_words |->
                  join(CommaSpace, sorted(source_title_words \cap video_title_words)),
              common_description_words |->
                  join(CommaSpace,
                       sorted(source_description_words \cap video_description_words)),
              common_tags |-> join(CommaSpace, sorted(source_tags \cap video_tags)),
              different_tags |-> join(CommaSpace, sorted(video_tags \ source_tags))]

-----------------------------------------------------------------------------
(* app.py: the credential, the merge and process_uploaded_files *)

validate_api_key(key) == Len(key) >= 20

\* setup_sidebar: the key to go on with, or None
setup_sidebar(text) ==
    IF text # << >>
    THEN IF ~validate_api_key(text) THEN None ELSE Some(text)
    ELSE None

\* mutant: the constructor only refuses an empty key
YouTubeAnalyzer_AnyLength(key) ==
    IF key = << >> THEN None
    ELSE Some([api_key |-> key, source_video_cache |-> EmptyMap])

\* YouTubeAnalyzer(api_key): the analyzer, or None for the ValueError
YouTubeAnalyzer(key) ==
    IF key = << >> \/ Len(key) < 20 THEN None
    ELSE Some([api_key |-> key, source_video_cache |-> EmptyMap])

Whitespace == {" ", "\t", "\n", "\r"}

RECURSIVE lstrip(_)
lstrip(s) == IF s # << >> /\ Head(s) \in Whitespace THEN lstrip(Tail(s)) ELSE s

RECURSIVE rstrip(_)
rstrip(s) == IF s # << >> /\ LastChar(s) \in Whitespace
             THEN rstrip(SubSeq(s, 1, Len(s) - 1)) ELSE s

\* str.strip
strip(s) == rstrip(lstrip(s))

\* lines 281-286: a first row whose first cell reads "total" is dropped
drop_total_row(df) ==
    IF Len(df.rows) > 0
    THEN LET first_row_str == IF Len(df.rows[1]) > 0
                              THEN strip(py_str(df.rows[1][1])) ELSE << >>
         IN  IF lower(first_row_str) = <<"t","o","t","a","l">>
             THEN [df EXCEPT !.rows = Tail(df.rows)]
             ELSE df
    ELSE df

\* validate_csv_structure: whether the table is accepted
validate_csv_structure(df) ==
    IF Len(df.rows) = 0 THEN FALSE
    ELSE IF /\ \A k \in 1..Len(df.columns) : df.columns[k] # <<"T","r","a","f","f","i","c"," ","s","o","u","r","c","e">>
            /\ \A k \in 1..Len(df.columns) : lower(df.columns[k]) # <<"t","r","a","f","f","i","c"," ","s","o","u","r","c","e">>
         THEN FALSE
    ELSE TRUE

\* {**csv_row, ..., **overlap_metrics}: a key of a later part replaces the
\* same key of an earlier one.  overlap_metrics is {} without reference
\* metadata and adds no key.
with_overlap(record, overlap_metrics) ==
    IF overlap_metrics = << >> THEN record ELSE overlap_metrics @@ record

\* the record of a video the API returned (lines 146-160)
found_record(csv_row, api_data, source_metadata) ==
    LET category == categorize_by_date(api_data.published_at)
        overlap_metrics == IF source_metadata # << >>
                           THEN compare_source_with_video(source_metadata, api_data)
                           ELSE << >>
    IN  with_overlap(
            [ video_id |-> csv_row.video_id,
              impressions |-> csv_row.impressions,
              impressions_ctr |-> csv_row.impressions_ctr,
              csv_views |-> csv_row.csv_views,
              average_view_duration |-> csv_row.average_view_duration,
              watch_time_hours |-> csv_row.watch_time_hours,
              title |-> dict_get(api_data, "title", UnknownTitle),
              published_at |-> dict_get(api_data, "published_at", << >>),
              api_views |-> dict_get(api_data, "view_count", 0),
              thumbnail_url |-> dict_get(api_data, "thumbnail_url", << >>),
              category |-> category,
              content_type |-> dict_get(api_data, "content_type", "Unknown") ],
            overlap_metrics)

\* mutant: a video the API did not return gets the defaults of a returned one
default_record_unknown_title(csv_row, video_id, source_metadata) ==
    LET overlap_metrics == IF source_metadata # << >>
                           THEN compare_source_with_video(source_metadata, << >>)
                           ELSE << >>
    IN  with_overlap(
            [ video_id |-> csv_row.video_id,
              impressions |-> csv_row.impressions,
              impressions_ctr |-> csv_row.impressions_ctr,
              csv_views |-> csv_row.csv_views,
              average_view_duration |-> csv_row.average_view_duration,
              watch_time_hours |-> csv_row.watch_time_hours,
              title |-> UnknownTitle,
              published_at |-> << >>,
              api_views |-> 0,
              thumbnail_url |-> << >>,
              category |-> "Unknown",
              content_type |-> "Unknown" ],
            overlap_metrics)

\* the record of a video the API did not return (lines 161-174)
default_record(csv_row, video_id, source_metadata) ==
    LET overlap_metrics == IF source_metadata # << >>
                           THEN compare_source_with_video(source_metadata, << >>)
                           ELSE << >>
    IN  with_overlap(
            [ video_id |-> csv_row.video_id,
              impressions |-> csv_row.impressions,
              impressions_ctr |-> csv_row.impressions_ctr,
              csv_views |-> csv_row.csv_views,
              average_view_duration |-> csv_row.average_view_duration,
              watch_time_hours |-> csv_row.watch_time_hours,
              title |-> <<"V","i","d","e","o"," ","I","D",":"," ">> \o video_id,
              published_at |-> << >>,
              api_views |-> 0,
              thumbnail_url |-> << >>,
              category |-> "Unknown",
              content_type |-> "Unknown" ],
            overlap_metrics)

\* mutant: only the videos the API returned are merged
combine_csv_and_api_data_inner_join(ids, csv_data, api, source_metadata) ==
    LET listed == SelectSeq(ids, LAMBDA v : v \in DOMAIN csv_data /\ v \in DOMAIN api)
    IN  [k \in 1..Len(listed) |->
            found_record(csv_data[listed[k]], api[listed[k]], source_metadata)]

\* combine_csv_and_api_data (the analyzer argument is only used for its two
\* methods, which read no field of it but the clock)
combine_csv_and_api_data(ids, csv_data, api, source_metadata) ==
    LET listed == SelectSeq(ids, LAMBDA v : v \in DOMAIN csv_data)
    IN  [k \in 1..Len(listed) |->
            IF listed[k] \in DOMAIN api
            THEN found_record(csv_data[listed[k]], api[listed[k]], source_metadata)
            ELSE default_record(csv_data[listed[k]], listed[k], source_metadata)]

fetchLocals == <<now, cache, fpc, api_key, video_ids, i, attempt, video_data,
                 failed_batches, marker, trace, last_outcome, batch_log, result,
                 hit, warned, calls, started, history, waited>>

\* main: the sidebar, st.stop without a key, and the call of
\* process_uploaded_files when files were uploaded
Main ==
    /\ ppc = "main"
    /\ IF setup_sidebar(entered_key) = None
       THEN /\ run_outcome' = "stopped"
            /\ ppc' = "done"
       ELSE IF uploaded_files = << >>
            THEN /\ run_outcome' = "no_files"
                 /\ ppc' = "done"
            ELSE /\ ppc' = "process_call"
                 /\ UNCHANGED run_outcome
    /\ UNCHANGED <<entered_key, source_video_url, uploaded_files, analyzer,
                   file_index, total_rows, all_combined_data, api_fetch_count,
                   cache_fetch_count, cur_video_ids, cur_csv_data, summary,
                   files_read, ref_lookups, served_ids, fetched_ids, file_log>>
    /\ UNCHANGED <<extractVars, fetchVars, ingestVars, pureVars>>

\* process_uploaded_files up to the file loop: the locals, the constructor
\* (ValueError: st.error and return) and the reference-video lookup, whose
\* call of analyzer.extract_video_id_from_url raises AttributeError, the
\* class having no such method; the outer except Exception reports it
ProcessStart ==
    /\ ppc = "process_call"
    /\ total_rows' = 0
    /\ all_combined_data' = << >>
    /\ api_fetch_count' = 0
    /\ cache_fetch_count' = 0
    /\ file_index' = 0
    /\ analyzer' = YouTubeAnalyzer(entered_key)
    /\ IF analyzer' = None
       THEN /\ run_outcome' = "key_error"
            /\ ppc' = "done"
            /\ UNCHANGED ref_lookups
       ELSE IF source_video_url # << >>
            THEN /\ ref_lookups' = ref_lookups + 1
                 /\ run_outcome' = "unexpected_error"
                 /\ ppc' = "done"
            ELSE /\ ppc' = "files"
                 /\ UNCHANGED <<run_outcome, ref_lookups>>
    /\ UNCHANGED <<entered_key, source_video_url, uploaded_files, cur_video_ids,
                   cur_csv_data, summary, files_read, served_ids, fetched_ids,
                   file_log>>
    /\ UNCHANGED <<extractVars, fetchVars, ingestVars, pureVars>>

\* what becomes of one file of the loop; df, the extraction and this outcome
\* are values computed once per turn
file_outcome(df, extraction) ==
    IF Len(df.rows) = 0 THEN "empty"
    ELSE IF ~validate_csv_structure(df) THEN "missing_column"
    ELSE IF extraction.exc # "none" THEN "exception"
    ELSE IF extraction.video_ids = << >> THEN "no_ids"
    ELSE "fetch"

\* mutant: a table that fails validation ends the file loop
ProcessFile_StopsAtInvalid ==
    /\ ppc = "files"
    /\ file_index < Len(uploaded_files)
    /\ \E df \in {drop_total_row(uploaded_files[file_index + 1])} :
       \E extraction \in {extract_video_data_from_csv(df)} :
       \E reason \in {file_outcome(df, extraction)} :
           /\ files_read' = files_read + 1
           /\ total_rows' = total_rows + Len(df.rows)
           /\ file_log' = Append(file_log,
                   [reason |-> reason,
                    ids |-> IF reason \in {"no_ids", "fetch"} THEN extraction.video_ids
                            ELSE << >>,
                    calls_before |-> calls,
                    records |-> << >>])
           /\ IF ~validate_csv_structure(df)
              THEN /\ file_index' = Len(uploaded_files)
                   /\ UNCHANGED <<ppc, run_outcome, cur_video_ids, cur_csv_data>>
                   /\ UNCHANGED fetchLocals
              ELSE IF extraction.exc # "none"
                   THEN /\ run_outcome' = "unexpected_error"
                        /\ ppc' = "done"
                        /\ UNCHANGED <<file_index, cur_video_ids, cur_csv_data>>
                        /\ UNCHANGED fetchLocals
              ELSE IF extraction.video_ids = << >>
                   THEN /\ file_index' = file_index + 1
                        /\ UNCHANGED <<ppc, run_outcome, cur_video_ids, cur_csv_data>>
                        /\ UNCHANGED fetchLocals
              ELSE /\ cur_video_ids' = extraction.video_ids
                   /\ cur_csv_data' = extraction.csv_data
                   /\ GetVideoData(analyzer[1].api_key, extraction.video_ids)
                   /\ ppc' = "fetch_wait"
                   /\ UNCHANGED <<file_index, run_outcome>>
    /\ UNCHANGED <<entered_key, source_video_url, uploaded_files, analyzer,
                   all_combined_data, api_fetch_count, cache_fetch_count, summary,
                   ref_lookups, served_ids, fetched_ids>>
    /\ UNCHANGED <<extractVars, ingestVars, pureVars>>

\* one turn of the file loop up to the call of get_video_data (lines 274-303)
ProcessFile ==
    /\ ppc = "files"
    /\ file_index < Len(uploaded_files)
    /\ \E df \in {drop_total_row(uploaded_files[file_index + 1])} :
       \E extraction \in {extract_video_data_from_csv(df)} :
       \E reason \in {file_outcome(df, extraction)} :
           /\ files_read' = files_read + 1
           /\ total_rows' = total_rows + Len(df.rows)
           /\ file_log' = Append(file_log,
                   [reason |-> reason,
                    ids |-> IF reason \in {"no_ids", "fetch"} THEN extraction.video_ids
                            ELSE << >>,
                    calls_before |-> calls,
                    records |-> << >>])
           /\ IF ~validate_csv_structure(df)
              THEN /\ file_index' = file_index + 1
                   /\ UNCHANGED <<ppc, run_outcome, cur_video_ids, cur_csv_data>>
                   /\ UNCHANGED fetchLocals
              ELSE IF extraction.exc # "none"
                   THEN /\ run_outcome' = "unexpected_error"
                        /\ ppc' = "done"
                        /\ UNCHANGED <<file_index, cur_video_ids, cur_csv_data>>
                        /\ UNCHANGED fetchLocals
              ELSE IF extraction.video_ids = << >>
                   THEN /\ file_index' = file_index + 1
                        /\ UNCHANGED <<ppc, run_outcome, cur_video_ids, cur_csv_data>>
                        /\ UNCHANGED fetchLocals
              ELSE /\ cur_video_ids' = extraction.video_ids
                   /\ cur_csv_data' = extraction.csv_data
                   /\ GetVideoData(analyzer[1].api_key, extraction.video_ids)
                   /\ ppc' = "fetch_wait"
                   /\ UNCHANGED <<file_index, run_outcome>>
    /\ UNCHANGED <<entered_key, source_video_url, uploaded_files, analyzer,
                   all_combined_data, api_fetch_count, cache_fetch_count, summary,
                   ref_lookups, served_ids, fetched_ids>>
    /\ UNCHANGED <<extractVars, ingestVars, pureVars>>

\* the rest of the turn, once get_video_data has returned (lines 303-316)
AfterFetch ==
    /\ ppc = "fetch_wait"
    /\ fpc = "idle"
    /\ all_combined_data' = all_combined_data
            \o combine_csv_and_api_data(cur_video_ids, cur_csv_data, result.data, None)
    /\ IF Truthy(result.marker)
       THEN /\ cache_fetch_count' = cache_fetch_count + Len(cur_video_ids)
            /\ UNCHANGED api_fetch_count
       ELSE /\ api_fetch_count' = api_fetch_count + Len(cur_video_ids)
            /\ UNCHANGED cache_fetch_count
    /\ IF hit
       THEN /\ served_ids' = served_ids + Len(cur_video_ids)
            /\ UNCHANGED fetched_ids
       ELSE /\ fetched_ids' = fetched_ids + Len(cur_video_ids)
            /\ UNCHANGED served_ids
    /\ file_index' = file_index + 1
    /\ ppc' = "files"
    /\ file_log' = [file_log EXCEPT ![Len(file_log)].records =
                        combine_csv_and_api_data(cur_video_ids, cur_csv_data, result.data, None)]
    /\ UNCHANGED <<entered_key, source_video_url, uploaded_files, analyzer,
                   total_rows, cur_video_ids, cur_csv_data, run_outcome, summary,
                   files_read, ref_lookups>>
    /\ UNCHANGED <<extractVars, fetchVars, ingestVars, pureVars>>

\* after the loop (lines 318-327): the warning, or the st.success line
Finish ==
    /\ ppc = "files"
    /\ file_index = Len(uploaded_files)
    /\ IF all_combined_data = << >>
       THEN /\ run_outcome' = "no_data"
            /\ UNCHANGED summary
       ELSE /\ run_outcome' = "success"
            /\ summary' = Some([files |-> Len(uploaded_files), total_rows |-> total_rows,
                                api |-> api_fetch_count, cache |-> cache_fetch_count])
    /\ ppc' = "done"
    /\ UNCHANGED <<entered_key, source_video_url, uploaded_files, analyzer,
                   file_index, total_rows, all_combined_data, api_fetch_count,
                   cache_fetch_count, cur_video_ids, cur_csv_data,
                   files_read, ref_lookups, served_ids, fetched_ids, file_log>>
    /\ UNCHANGED <<extractVars, fetchVars, ingestVars, pureVars>>

InitPipelineVars ==
    /\ entered_key = << >>
    /\ source_video_url = << >>
    /\ uploaded_files = << >>
    /\ ppc = "done"
    /\ analyzer = None
    /\ file_index = 0
    /\ total_rows = 0
    /\ all_combined_data = << >>
    /\ api_fetch_count = 0
    /\ cache_fetch_count = 0
    /\ cur_video_ids = << >>
    /\ cur_csv_data = EmptyMap
    /\ run_outcome = "none"
    /\ summary = None
    /\ files_read = 0
    /\ ref_lookups = 0
    /\ served_ids = 0
    /\ fetched_ids = 0
    /\ file_log = << >>

InitPureVars ==
    /\ call_args = << >>
    /\ call_result = << >>
    /\ cpc = "done"

-----------------------------------------------------------------------------
(* Inputs of extract_video_id: concatenations of at most MaxParts pieces *)

MaxParts == 3

ID_A == <<"d","Q","w","4","w","9","W","g","X","c","Q">>
ID_B == <<"a","B","-","_","0","1","2","3","x","y","z">>

Pieces ==
    { YT_RELATED,
      ID_A,
      <<"a","B","-">>,                       \* ID_B, first 3 characters
      <<"_","0","1","2","3","x","y","z">>,   \* ID_B, last 8 characters
      <<".">>,
      <<"!">>,
      <<"Y","T","_","R","E","L","A","T","E","D">> }

PieceSeqs == UNION { [1..n -> Pieces] : n \in 0..MaxParts }

ExtractInputs == { Concat(ps) : ps \in PieceSeqs }

InitExtract ==
    /\ traffic_source \in ExtractInputs
    /\ extracted = None
    /\ xpc = "call"
    /\ InitFetchVars
    /\ InitIngestVars
    /\ InitPipelineVars
    /\ InitPureVars

ExtractCall ==
    /\ xpc = "call"
    /\ extracted' = extract_video_id(traffic_source)
    /\ xpc' = "done"
    /\ UNCHANGED <<traffic_source, fetchVars, ingestVars, pipelineVars, pureVars>>

NextExtract == ExtractCall

SpecExtract == InitExtract /\ [][NextExtract]_vars

-----------------------------------------------------------------------------
(* One call of get_video_data on a list of 0, 1, 50, 51 or MaxIds            *)
(* identifiers, every request ending in any of the outcomes                  *)

MaxIds == 120

MkId(k) == <<"v","i","d","_","_","_","_","_",
             DigitSeq[((k \div 100) % 10) + 1],
             DigitSeq[((k \div 10) % 10) + 1],
             DigitSeq[(k % 10) + 1]>>

IdList(n) == [k \in 1..n |-> MkId(k)]

FetchLengths == {0, 1, BATCH_SIZE, BATCH_SIZE + 1, MaxIds}

InitFetch ==
    /\ traffic_source = << >>
    /\ extracted = None
    /\ xpc = "done"
    /\ InitFetchVars
    /\ InitIngestVars
    /\ InitPipelineVars
    /\ InitPureVars

CallFetch ==
    /\ calls = 0
    /\ \E n \in FetchLengths : GetVideoData(API_KEY_1, IdList(n))
    /\ UNCHANGED nonFetchVars

NextFetch ==
    \/ CallFetch
    \/ AttemptTimeout
    \/ AttemptRequestException
    \/ AttemptErrorPayload
    \/ AttemptItems
    \/ Return

SpecFetch == InitFetch /\ [][NextFetch]_vars

\* a call that has started keeps running: Python executes the function to its end
FetchStep ==
    \/ AttemptTimeout
    \/ AttemptRequestException
    \/ AttemptErrorPayload
    \/ AttemptItems
    \/ Return

SpecFetchFair == SpecFetch /\ WF_vars(FetchStep)

-----------------------------------------------------------------------------
(* Repeated calls of get_video_data in one process: the caller passes one   *)
(* of a few short lists, and lets time pass between two calls               *)

MaxCalls == 2

CacheLists == {<< >>, <<ID_A, ID_B>>, <<ID_B, ID_A>>}

\* one millisecond short of the ttl, and the ttl
WaitChoices == {TTL_MS - 1, TTL_MS}

InitCache == InitFetch

CallCached ==
    /\ calls < MaxCalls
    /\ \E ids \in CacheLists : GetVideoData(API_KEY_1, ids)
    /\ UNCHANGED nonFetchVars

Wait ==
    /\ fpc = "idle"
    /\ calls \in 1..(MaxCalls - 1)
    /\ ~waited
    /\ waited' = TRUE
    /\ \E ms \in WaitChoices : now' = now + ms
    /\ UNCHANGED <<cache, fpc, api_key, video_ids, i, attempt, video_data,
                   failed_batches, marker, trace, last_outcome, batch_log, result,
                   hit, warned, calls, started, history>>
    /\ UNCHANGED nonFetchVars

NextCache ==
    \/ CallCached
    \/ Wait
    \/ AttemptTimeout
    \/ AttemptRequestException
    \/ AttemptErrorPayload
    \/ AttemptItems
    \/ Return

SpecCache == InitCache /\ [][NextCache]_vars

-----------------------------------------------------------------------------
(* Repeated calls of get_video_data on analyzers built with two credentials, *)
(* all less than the ttl after the return of the first: the list fills one   *)
(* batch and one identifier of a second                                      *)

API_KEY_2 == [k \in 1..24 |-> "j"]

KeyedCredentials == {API_KEY_1, API_KEY_2}

KeyedLists == { IdList(BATCH_SIZE + 1) }

\* the pause between two calls: MaxCalls - 1 of them make one millisecond
\* less than the ttl
KeyedPause == (TTL_MS - 1) \div (MaxCalls - 1)

InitKeyed == InitFetch

CallKeyed ==
    /\ calls < MaxCalls
    /\ \E key \in KeyedCredentials, ids \in KeyedLists : GetVideoData(key, ids)
    /\ UNCHANGED nonFetchVars

WaitKeyed ==
    /\ fpc = "idle"
    /\ calls \in 1..(MaxCalls - 1)
    /\ ~waited
    /\ waited' = TRUE
    /\ now' = now + KeyedPause
    /\ UNCHANGED <<cache, fpc, api_key, video_ids, i, attempt, video_data,
                   failed_batches, marker, trace, last_outcome, batch_log, result,
                   hit, warned, calls, started, history>>
    /\ UNCHANGED nonFetchVars

NextKeyed ==
    \/ CallKeyed
    \/ WaitKeyed
    \/ AttemptTimeout
    \/ AttemptRequestException
    \/ AttemptErrorPayload
    \/ AttemptItems
    \/ Return

SpecKeyed == InitKeyed /\ [][NextKeyed]_vars

-----------------------------------------------------------------------------
(* C1: extract_video_id returns X exactly when its input is the prefix      *)
(* "YT_RELATED." followed by X, X being 11 characters of [A-Za-z0-9_-];     *)
(* for every other input (also one whose suffix contains "YT_RELATED."      *)
(* again) it returns None.                                                  *)
C1_ExtractIffPrefixedId ==
    xpc = "done" =>
        LET suffix == SubSeq(traffic_source, Len(YT_RELATED) + 1, Len(traffic_source))
        IN  extracted = IF startswith(traffic_source, YT_RELATED)
                           /\ fullmatch_video_id(suffix)
                        THEN Some(suffix)
                        ELSE None

-----------------------------------------------------------------------------
(* One call of extract_video_data_from_csv on a table of at most MaxRows     *)
(* rows.  A row names ID_A, ID_B or no video in its traffic source cell and  *)
(* carries one of two metric values; the columns come in two layouts.        *)

MaxRows == 5

SRC_NONE == <<"G","o","o","g","l","e"," ","s","e","a","r","c","h">>

RowChoices == { [src |-> YT_RELATED \o ID_A, m |-> 1],
                [src |-> YT_RELATED \o ID_A, m |-> 2],
                [src |-> YT_RELATED \o ID_B, m |-> 1],
                [src |-> SRC_NONE, m |-> 1] }

LayoutColumns(h) ==
    IF h = 1 THEN << <<"T","r","a","f","f","i","c"," ","s","o","u","r","c","e">>, <<"I","m","p","r","e","s","s","i","o","n","s">>, <<"V","i","e","w","s">> >>
    ELSE << <<"v","i","e","w","s">>, <<"T","R","A","F","F","I","C"," ","S","O","U","R","C","E">> >>

LayoutRow(h, c) ==
    IF h = 1 THEN << PyStr(c.src), PyInt(c.m), PyInt(10 * c.m) >>
    ELSE << PyInt(10 * c.m), PyStr(c.src) >>

TableOf(h, cs) == [columns |-> LayoutColumns(h),
                   rows |-> [k \in 1..Len(cs) |-> LayoutRow(h, cs[k])]]

IngestTables ==
    { TableOf(h, cs) : h \in {1, 2},
                       cs \in UNION { [1..n -> RowChoices] : n \in 0..MaxRows } }

InitIngest ==
    /\ traffic_source = << >>
    /\ extracted = None
    /\ xpc = "done"
    /\ InitFetchVars
    /\ InitPipelineVars
    /\ InitPureVars
    /\ table \in IngestTables
    /\ ingested = [video_ids |-> << >>, csv_data |-> EmptyMap, exc |-> "none",
                   errors_count |-> 0]
    /\ ipc = "call"

IngestCall ==
    /\ ipc = "call"
    /\ ingested' = extract_video_data_from_csv(table)
    /\ ipc' = "done"
    /\ UNCHANGED <<table, extractVars, fetchVars, pipelineVars, pureVars>>

NextIngest == IngestCall

SpecIngest == InitIngest /\ [][NextIngest]_vars

-----------------------------------------------------------------------------
(* One call of extract_video_data_from_csv on a table with all six columns, *)
(* or with the traffic source column only.  The first row names ID_A and    *)
(* holds any of CellValues in each numeric cell; a second row, when there   *)
(* is one, names ID_B and holds plain numbers.                              *)

CellValues == << PyInt(7), PyInt(-5), PyFloat(25), PyNaN, PyInf(1),
                 PyStr(<<"N","/","A">>), PyStr(<< >>), PyStr(<<"-","3",".","5">>) >>

DurationValues == << PyStr(<<"1",":","2","3">>), PyNaN >>

CellColumns == << <<"T","r","a","f","f","i","c"," ","s","o","u","r","c","e">>, <<"I","m","p","r","e","s","s","i","o","n","s">>,
                  <<"I","m","p","r","e","s","s","i","o","n","s"," ","c","l","i","c","k","-","t","h","r","o","u","g","h"," ","r","a","t","e"," ","(","%",")">>, <<"V","i","e","w","s">>,
                  <<"A","v","e","r","a","g","e"," ","v","i","e","w"," ","d","u","r","a","t","i","o","n">>, <<"W","a","t","c","h"," ","t","i","m","e"," ","(","h","o","u","r","s",")">> >>

CellRow(src, imp, ctr, views, dur, watch) == << PyStr(src), imp, ctr, views, dur, watch >>

PlainRow == CellRow(YT_RELATED \o ID_B, PyInt(3), PyFloat(15), PyInt(4),
                    PyStr(<<"0",":","4","5">>), PyFloat(20))

\* the table made of the chosen cell values (indices into the lists above)
CellTable(imp, ctr, views, dur, watch, rest) ==
    [columns |-> CellColumns,
     rows |-> <<CellRow(YT_RELATED \o ID_A, CellValues[imp], CellValues[ctr],
                        CellValues[views], DurationValues[dur], CellValues[watch])>>
              \o rest]

SourceOnlyTable ==
    [columns |-> <<<<"T","r","a","f","f","i","c"," ","s","o","u","r","c","e">>>>,
     rows |-> <<<<PyStr(YT_RELATED \o ID_A)>>, <<PyStr(SRC_NONE)>>>>]

InitCells ==
    /\ traffic_source = << >>
    /\ extracted = None
    /\ xpc = "done"
    /\ InitFetchVars
    /\ InitPipelineVars
    /\ InitPureVars
    /\ \/ \E imp \in DOMAIN CellValues, ctr \in DOMAIN CellValues,
             views \in DOMAIN CellValues, dur \in DOMAIN DurationValues,
             watch \in {1, 2}, rest \in { << >>, <<PlainRow>> } :
               table = CellTable(imp, ctr, views, dur, watch, rest)
       \/ table = SourceOnlyTable
    /\ ingested = [video_ids |-> << >>, csv_data |-> EmptyMap, exc |-> "none",
                   errors_count |-> 0]
    /\ ipc = "call"

NextCells == IngestCall

SpecCells == InitCells /\ [][NextCells]_vars

-----------------------------------------------------------------------------
(* One run of the application: a credential, a reference URL field, and at  *)
(* most MaxFiles uploaded tables; entered through main, or by a direct call *)
(* of process_uploaded_files                                                *)

MaxFiles == 2

KeyLengths == {0, 19, 20}

KeyChoices == { [k \in 1..n |-> "k"] : n \in KeyLengths }

UrlChoices == { << >>, <<"h","t","t","p","s",":","/","/","y","o","u","t","u",".","b","e","/">> \o ID_A }

ROW_TOTAL == [src |-> <<" ","T","o","t","a","l"," ">>, m |-> 9]
ROW_A == [src |-> YT_RELATED \o ID_A, m |-> 1]
ROW_A2 == [src |-> YT_RELATED \o ID_A, m |-> 2]
ROW_B == [src |-> YT_RELATED \o ID_B, m |-> 1]
ROW_NONE == [src |-> SRC_NONE, m |-> 1]

\* a table naming ID_A under the header "Source", one of the names
\* extract_video_data_from_csv looks for
AliasTable == [columns |-> <<<<"V","i","e","w","s">>, <<"S","o","u","r","c","e">>>>,
               rows |-> <<<<PyInt(5), PyStr(YT_RELATED \o ID_A)>>>>]

\* the same row under a header that is none of those names
NoSourceTable == [columns |-> <<<<"V","i","e","w","s">>, <<"V","i","d","e","o">>>>,
                  rows |-> <<<<PyInt(5), PyStr(YT_RELATED \o ID_A)>>>>]

\* a table with a totals row above rows of two videos; the same two videos
\* the other way round under other headers; a table without identifiers;
\* a table without rows; the two tables above
FileChoices == { TableOf(1, <<ROW_TOTAL, ROW_A, ROW_B>>),
                 TableOf(2, <<ROW_B, ROW_A2>>),
                 TableOf(1, <<ROW_NONE>>),
                 TableOf(1, << >>),
                 AliasTable,
                 NoSourceTable }

InitPipeline ==
    /\ traffic_source = << >>
    /\ extracted = None
    /\ xpc = "done"
    /\ InitFetchVars
    /\ InitIngestVars
    /\ InitPureVars
    /\ entered_key \in KeyChoices
    /\ source_video_url \in UrlChoices
    /\ uploaded_files \in UNION { [1..n -> FileChoices] : n \in 0..MaxFiles }
    /\ ppc \in {"main", "process_call"}
    /\ analyzer = None
    /\ file_index = 0
    /\ total_rows = 0
    /\ all_combined_data = << >>
    /\ api_fetch_count = 0
    /\ cache_fetch_count = 0
    /\ cur_video_ids = << >>
    /\ cur_csv_data = EmptyMap
    /\ run_outcome = "none"
    /\ summary = None
    /\ files_read = 0
    /\ ref_lookups = 0
    /\ served_ids = 0
    /\ fetched_ids = 0
    /\ file_log = << >>

NextPipeline ==
    \/ Main
    \/ ProcessStart
    \/ ProcessFile
    \/ AfterFetch
    \/ Finish
    \/ AttemptTimeout
    \/ AttemptRequestException
    \/ AttemptErrorPayload
    \/ AttemptItems
    \/ Return

SpecPipeline == InitPipeline /\ [][NextPipeline]_vars

-----------------------------------------------------------------------------
(* What the claims about one call read off the trace and the batch log *)

CeilDiv(n, d) == (n + d - 1) \div d

IsRequest(e) == e.ev = "request"
IsPause(e) == e.ev = "sleep"
Requests(tr) == SelectSeq(tr, IsRequest)
RequestsAt(tr, off) == { k \in 1..Len(tr) : IsRequest(tr[k]) /\ tr[k].offset = off }
Offsets(tr) == { tr[k].offset : k \in { j \in 1..Len(tr) : IsRequest(tr[j]) } }

\* the call ran the function body (no cache hit) and has returned
Returned == calls > 0 /\ fpc = "idle" /\ ~hit

Failed(log) == { k \in 1..Len(log) : log[k].status = "failed" }

\* the items of a response that were stored: those before the first that raises
StoredPrefix(items) ==
    LET raising == { k \in 1..Len(items) : ItemRaises(items[k]) }
    IN  IF raising = {} THEN items
        ELSE SubSeq(items, 1, (CHOOSE k \in raising : \A j \in raising : k <= j) - 1)

ItemIds(items) == { items[k].id[1] : k \in 1..Len(items) }

-----------------------------------------------------------------------------
(* C2: whatever the outcome of each request, a call that executes ends and   *)
(* returns a mapping, and it issues at most 3 * ceil(n/50) requests for n    *)
(* identifiers.  Termination is stated by a rank: while the call runs it can *)
(* always take a step, and every step either returns or lowers the rank,     *)
(* which never goes below 0.                                                 *)
C2_Rank == 3 * (CeilDiv(Len(video_ids), 50) - (i \div 50)) - attempt

C2_Budget == Len(Requests(trace)) <= 3 * CeilDiv(Len(video_ids), 50)

C2_CanStep == fpc = "run" => C2_Rank >= 0 /\ ENABLED FetchStep

C2_StepLowersRank ==
    fpc = "run" =>
        \/ Returned' /\ result'.data = video_data
                     /\ DOMAIN video_data \subseteq SeqToSet(video_ids)
        \/ fpc' = "run" /\ C2_Rank' < C2_Rank /\ C2_Rank' >= 0

C2_TerminatesWithinRequestBudget ==
    /\ []C2_Budget
    /\ []C2_CanStep
    /\ [][C2_StepLowersRank]_vars

\* a call on MaxIds identifiers that used the whole budget and returned
C2_Witness ==
    /\ Returned
    /\ Len(video_ids) = MaxIds
    /\ Len(Requests(trace)) = 3 * CeilDiv(Len(video_ids), 50)

-----------------------------------------------------------------------------
(* C3: a batch gets at most 3 requests; a request directly following one for *)
(* the same batch comes only after a timeout or request failure, and after a *)
(* pause of 1 s (before the 2nd attempt) or 2 s (before the 3rd); a pause    *)
(* only ever stands between two attempts of one batch, so none follows the   *)
(* 3rd failed attempt.                                                       *)
C3_TraceShape ==
    /\ \A off \in Offsets(trace) : Cardinality(RequestsAt(trace, off)) <= 3
    /\ \A k \in 1..Len(trace) :
         IF IsPause(trace[k])
         THEN \* between two requests of one batch, 1000 ms then 2000 ms
              /\ k > 1 /\ IsRequest(trace[k - 1])
              /\ LET off == trace[k - 1].offset
                     nth == Cardinality({ j \in RequestsAt(trace, off) : j < k })
                 IN  /\ nth \in {1, 2}
                     /\ trace[k].ms = IF nth = 1 THEN 1000 ELSE 2000
                     /\ k < Len(trace) =>
                          IsRequest(trace[k + 1]) /\ trace[k + 1].offset = off
              /\ k = Len(trace) => fpc = "run" /\ i = trace[k - 1].offset
         ELSE \* a request directly after a request is for a later batch
              k > 1 /\ IsRequest(trace[k - 1]) => trace[k].offset > trace[k - 1].offset
    /\ (attempt > 0 /\ fpc = "run") =>
         /\ last_outcome \in {"timeout", "request_exception"}
         /\ trace # << >> /\ IsPause(trace[Len(trace)])

C3_RetryOnlyAfterTransient ==
    (/\ Len(trace') > Len(trace)
     /\ Requests(trace) # << >>
     /\ trace'[Len(trace) + 1].offset = Requests(trace)[Len(Requests(trace))].offset)
    => last_outcome \in {"timeout", "request_exception"}

C3_RetryWithBackoff == []C3_TraceShape /\ [][C3_RetryOnlyAfterTransient]_vars

\* a batch that failed on its 3rd attempt after pauses of 1 s and 2 s, the
\* call then going on without a pause
C3_Witness ==
    /\ Len(trace) >= 6
    /\ IsPause(trace[2]) /\ trace[2].ms = 1000
    /\ IsPause(trace[4]) /\ trace[4].ms = 2000
    /\ IsRequest(trace[5]) /\ trace[5].offset = 0
    /\ IsRequest(trace[6]) /\ trace[6].offset = 50
    /\ batch_log # << >> /\ batch_log[1].cause = "exhausted"

-----------------------------------------------------------------------------
(* C4 as claimed: when a call returns, every batch has been requested        *)
(* whatever failed before it, the mapping holds no identifier of a batch     *)
(* counted as failed and every item returned for a batch that succeeded, and *)
(* the warning carries the number of failed batches.                         *)
C4_AllBatchesTried ==
    /\ Len(batch_log) = CeilDiv(Len(video_ids), 50)
    /\ \A k \in 1..Len(batch_log) :
         /\ batch_log[k].offset = 50 * (k - 1)
         /\ RequestsAt(trace, batch_log[k].offset) # {}

C4_SucceededBatchesMapped ==
    \A k \in 1..Len(batch_log) :
        batch_log[k].status = "ok" =>
            \A j \in 1..Len(batch_log[k].items) :
                LET item == batch_log[k].items[j]
                IN  /\ item.id[1] \in DOMAIN result.data
                    /\ result.data[item.id[1]] = ItemRecord(item)

C4_FailedCountWarned ==
    /\ failed_batches = Cardinality(Failed(batch_log))
    /\ warned = IF Failed(batch_log) = {} THEN None
                ELSE Some(Cardinality(Failed(batch_log)))

C4_FailedBatchesUnmapped ==
    Returned =>
        /\ C4_AllBatchesTried
        /\ \A k \in Failed(batch_log) :
             SeqToSet(batch_log[k].ids) \cap DOMAIN result.data = {}
        /\ C4_SucceededBatchesMapped
        /\ C4_FailedCountWarned

(* C4 as amended: the same, but a batch counted as failed because an item of *)
(* its response could not be processed keeps the items stored before that    *)
(* item; only a batch that failed by exhausting its retries or on an error   *)
(* payload leaves all its identifiers unmapped.                              *)
C4_FailedBatchesKeepOnlyStoredPrefix ==
    Returned =>
        /\ C4_AllBatchesTried
        /\ \A k \in Failed(batch_log) :
             SeqToSet(batch_log[k].ids) \cap DOMAIN result.data =
                 IF batch_log[k].cause = "malformed_item"
                 THEN ItemIds(StoredPrefix(batch_log[k].items))
                 ELSE {}
        /\ C4_SucceededBatchesMapped
        /\ C4_FailedCountWarned

\* batch 2 of 3 exhausted its retries, batches 1 and 3 delivered their items
C4_Witness ==
    /\ Returned
    /\ Len(batch_log) = 3
    /\ batch_log[1].status = "ok" /\ batch_log[1].items # << >>
    /\ batch_log[2].cause = "exhausted"
    /\ batch_log[3].status = "ok" /\ batch_log[3].items # << >>
    /\ warned = Some(1)
    /\ DOMAIN result.data = ItemIds(batch_log[1].items) \cup ItemIds(batch_log[3].items)

-----------------------------------------------------------------------------
(* C5 as claimed: a batch answered with an error payload got exactly one     *)
(* request and no pause, is counted as failed, and the next batch follows.   *)
C5_ErrorBatch(k) == batch_log[k].cause = "error_payload"

C5_LastRequestAt(off) ==
    CHOOSE r \in RequestsAt(trace, off) : \A j \in RequestsAt(trace, off) : j <= r

C5_AbandonedAndCounted(k) ==
    LET off == batch_log[k].offset
        r == C5_LastRequestAt(off)
    IN  /\ batch_log[k].status = "failed"
        /\ failed_batches >= Cardinality({ j \in Failed(batch_log) : j <= k })
        /\ r < Len(trace) => IsRequest(trace[r + 1]) /\ trace[r + 1].offset = off + 50
        /\ (fpc = "run" \/ Returned) => i >= off + 50

C5_ErrorBatchesSettled ==
    \A k \in 1..Len(batch_log) :
        C5_ErrorBatch(k) =>
            /\ Cardinality(RequestsAt(trace, batch_log[k].offset)) = batch_log[k].attempts
            /\ batch_log[k].attempts \in 1..3
            /\ C5_AbandonedAndCounted(k)

C5_ErrorStepSettles ==
    (last_outcome' = "error_payload" /\ trace' # trace /\ fpc = "run") =>
        /\ trace' = Append(trace, Request)
        /\ now' = now
        /\ failed_batches' = failed_batches + 1
        /\ i' = i + 50
        /\ attempt' = 0
        /\ video_data' = video_data

-----------------------------------------------------------------------------
(* C6: the requests of a call, retries of one batch collapsed, are the       *)
(* slices ids[0:50], ids[50:100], ... in order: ceil(n/50) batches of at     *)
(* most 50 identifiers that partition the list, and batch k+1 is requested   *)
(* only when batch k is settled.                                             *)
C6_Slice(k) == SubSeq(video_ids, 50 * (k - 1) + 1, Min(50 * k, Len(video_ids)))

C6_BatchesInOrder ==
    LET reqs == Requests(trace)
        nb == CeilDiv(Len(video_ids), 50)
    IN  /\ \A j \in 1..Len(reqs) :
             LET k == (reqs[j].offset \div 50) + 1
             IN  /\ reqs[j].offset = 50 * (k - 1)
                 /\ k \in 1..nb
                 /\ reqs[j].ids = C6_Slice(k)
                 /\ Len(reqs[j].ids) \in 1..50
                 /\ IF j = 1 THEN k = 1
                    ELSE reqs[j].offset \in {reqs[j - 1].offset, reqs[j - 1].offset + 50}
                 \* the batches before batch k are settled
                 /\ Len(batch_log) >= k - 1
                 \* and no settled batch is requested again
                 /\ j = Len(reqs) => Len(batch_log) <= k
        /\ \A k \in 1..Len(batch_log) : batch_log[k].offset = 50 * (k - 1)
        /\ Returned =>
             /\ Offsets(trace) = { 50 * (k - 1) : k \in 1..nb }
             /\ Concat([k \in 1..nb |-> C6_Slice(k)]) = video_ids

\* 120 identifiers: batches of 50, 50 and 20, the second one retried
C6_Witness ==
    /\ Returned
    /\ Len(video_ids) = 120
    /\ Len(Requests(trace)) = 4
    /\ Len(Requests(trace)[1].ids) = 50
    /\ Len(Requests(trace)[2].ids) = 50
    /\ Requests(trace)[3].offset = 50
    /\ Len(Requests(trace)[4].ids) = 20

-----------------------------------------------------------------------------
(* C10: after ingest the identifier list holds each extracted identifier     *)
(* once, in order of first occurrence, and the record of an identifier       *)
(* holds the metric values of the first row naming it.                       *)

\* the column of the table whose lowered name is nm, 0 when there is none
C10_ColumnAt(nm) ==
    LET at == { k \in 1..Len(table.columns) : lower(table.columns[k]) = nm }
    IN  IF at = {} THEN 0 ELSE CHOOSE k \in at : TRUE

\* the identifier row k names, None when it names none
C10_RowId(k) ==
    extract_video_id(py_str(table.rows[k][C10_ColumnAt(<<"t","r","a","f","f","i","c"," ","s","o","u","r","c","e">>)]))

C10_RowsOf(id) == { k \in 1..Len(table.rows) : C10_RowId(k) = Some(id) }
C10_First(id) == CHOOSE k \in C10_RowsOf(id) : \A j \in C10_RowsOf(id) : k <= j

C10_Metric(k, nm) ==
    IF C10_ColumnAt(nm) = 0 THEN PyInt(0) ELSE table.rows[k][C10_ColumnAt(nm)]

C10_FirstOccurrenceWins ==
    ipc = "done" =>
        LET ids == ingested.video_ids
            data == ingested.csv_data
        IN  /\ ingested.exc = "none"
            /\ SeqToSet(ids) = { C10_RowId(k)[1] :
                                   k \in { j \in 1..Len(table.rows) : C10_RowId(j) # None } }
            /\ \A p, q \in 1..Len(ids) :
                 p < q => ids[p] # ids[q] /\ C10_First(ids[p]) < C10_First(ids[q])
            /\ DOMAIN data = SeqToSet(ids)
            /\ \A id \in DOMAIN data :
                 /\ data[id].video_id = id
                 /\ data[id].impressions = C10_Metric(C10_First(id), <<"i","m","p","r","e","s","s","i","o","n","s">>)
                 /\ data[id].csv_views = C10_Metric(C10_First(id), <<"v","i","e","w","s">>)

\* ID_A in rows 2 and 5 with different metric values: row 2's values are kept
C10_Witness ==
    /\ ipc = "done"
    /\ Len(table.rows) = 5
    /\ Len(table.columns) = 3
    /\ C10_RowsOf(ID_A) = {2, 5}
    /\ table.rows[2][2] = PyInt(2) /\ table.rows[5][2] = PyInt(1)
    /\ ingested.csv_data[ID_A].impressions = PyInt(2)
    /\ ingested.csv_data[ID_A].csv_views = PyInt(20)
    /\ Len(ingested.video_ids) = 2

-----------------------------------------------------------------------------
(* C7: a get_video_data call made less than 1 hour after an earlier call    *)
(* with the same set of identifiers, in whatever order, issues no request   *)
(* and returns the earlier call's mapping; a call made after the window     *)
(* has expired fetches again.                                               *)
C7_InWindow(a, b) == history[b].start < history[a].at + TTL_MS

\* earlier calls of the same identifier set whose window covers call b
C7_EarlierSameSet(b) ==
    {a \in 1..(b - 1) : /\ SeqToSet(history[a].ids) = SeqToSet(history[b].ids)
                        /\ C7_InWindow(a, b)}

C7_EarlierExecution(b) ==
    {a \in 1..(b - 1) : /\ history[a].ids = history[b].ids
                        /\ ~history[a].hit
                        /\ C7_InWindow(a, b)}

-----------------------------------------------------------------------------
(* C8: the marker returned with the mapping tells a cache hit from a fresh  *)
(* fetch (no call served from the cache returns the marker of a call that   *)
(* executed the fetch), and process_uploaded_files adds a file's            *)
(* identifiers to the cache count only when its call was served from the    *)
(* cache and to the API count only when its call executed the fetch.        *)
C8_MarkerTellsCacheFromFresh ==
    /\ \A a \in DOMAIN history : \A b \in DOMAIN history :
           history[a].hit # history[b].hit
               => history[a].result.marker # history[b].result.marker
    /\ cache_fetch_count = served_ids
    /\ api_fetch_count = fetched_ids

-----------------------------------------------------------------------------
(* C9: no request carries a credential shorter than 20 characters; with     *)
(* such a credential (or none) no analyzer is built, no table is read, the  *)
(* reference-video lookup is not entered, get_video_data is not called,     *)
(* and the run ends at the sidebar check (st.stop) or at the constructor's  *)
(* ValueError, in its very next step, with nothing merged and no summary.   *)
C9_ShortCredential == Len(entered_key) < 20

C9_RequestsCarryLongCredential ==
    /\ \A k \in DOMAIN trace : IsRequest(trace[k]) => Len(trace[k].key) >= 20
    /\ \A k \in DOMAIN history : history[k].requests > 0 => Len(history[k].key) >= 20
    /\ analyzer # None => Len(analyzer[1].api_key) >= 20

C9_NothingDone ==
    C9_ShortCredential =>
        /\ analyzer = None
        /\ files_read = 0
        /\ ref_lookups = 0
        /\ calls = 0
        /\ trace = << >>
        /\ history = << >>
        /\ all_combined_data = << >>
        /\ summary = None
        /\ ppc \in {"main", "process_call", "done"}
        /\ ppc = "done" => run_outcome \in {"stopped", "key_error"}

\* the step taken with a short credential is the one that ends the run
C9_HaltsAtOnce ==
    C9_ShortCredential =>
        /\ ppc' = "done"
        /\ ppc = "main" => run_outcome' = "stopped"
        /\ ppc = "process_call" => run_outcome' = "key_error"

C9_ShortCredentialRejected ==
    /\ [](C9_RequestsCarryLongCredential /\ C9_NothingDone)
    /\ [][C9_HaltsAtOnce]_vars

\* process_uploaded_files was called with a 19-character credential, a
\* reference URL and files, and has returned on the constructor's ValueError
C9_Witness ==
    /\ Len(entered_key) = 19
    /\ uploaded_files # << >>
    /\ source_video_url # << >>
    /\ ppc = "done"
    /\ run_outcome = "key_error"

-----------------------------------------------------------------------------
(* C11: whatever its numeric cells hold, a row whose identifier extracts    *)
(* gets a record, each field that does not convert holding its default,     *)
(* and the ingest of the table completes: no exception leaves it and every  *)
(* row naming a video is in the result.                                     *)
C11_Named == { k \in 1..Len(table.rows) : extract_video_id(py_str(table.rows[k][1])) # None }

\* whether float() accepts the cell as a finite or infinite number
C11_Numeric(c) == notna(c) /\ py_truthy(c) /\ py_float(c).t \in {"float", "inf"}

C11_EveryNamedRowRecorded ==
    ipc = "done" =>
        /\ ingested.exc = "none"
        /\ Len(ingested.video_ids) = Cardinality(C11_Named)
        /\ \A k \in C11_Named :
             LET id == extract_video_id(py_str(table.rows[k][1]))[1]
             IN  /\ id \in DOMAIN ingested.csv_data
                 /\ Len(table.columns) = 6 /\ ~C11_Numeric(table.rows[k][2])
                        => ingested.csv_data[id].impressions = PyInt(0)
                 /\ Len(table.columns) = 6 /\ ~C11_Numeric(table.rows[k][4])
                        => ingested.csv_data[id].csv_views = PyInt(0)

-----------------------------------------------------------------------------
(* C17: in every record ingest produces, impressions and the local view     *)
(* count are integers that are not negative, and the click-through rate     *)
(* and the watch time are not negative.                                     *)
C17_MetricsNotNegative ==
    ipc = "done" =>
        \A id \in DOMAIN ingested.csv_data :
            LET r == ingested.csv_data[id]
            IN  /\ r.impressions.t = "int" /\ r.impressions.v >= 0
                /\ r.csv_views.t = "int" /\ r.csv_views.v >= 0
                /\ r.impressions_ctr.t \in {"float", "inf"} /\ r.impressions_ctr.v >= 0
                /\ r.watch_time_hours.t \in {"float", "inf"} /\ r.watch_time_hours.v >= 0

-----------------------------------------------------------------------------
(* C12: a table whose traffic source column goes by any of the names        *)
(* 'traffic source', 'trafficsource' or 'source', in any case, is accepted  *)
(* by process_uploaded_files and its rows are ingested; a table is          *)
(* rejected for the missing column only when no header is one of them.      *)
C12_AliasAccepted ==
    \A k \in DOMAIN file_log :
        LET df == drop_total_row(uploaded_files[k])
            named == find_column_by_name(df, TRAFFIC_NAMES) # None
        IN  /\ file_log[k].reason = "missing_column" => ~named
            /\ named /\ Len(df.rows) > 0 =>
                  /\ file_log[k].reason \in {"no_ids", "fetch"}
                  /\ file_log[k].ids = extract_video_data_from_csv(df).video_ids

-----------------------------------------------------------------------------
(* C13: in a run over several tables, a table without a traffic source      *)
(* column contributes no identifiers and no records and no get_video_data   *)
(* call (so no request) is made for it; the loop goes on, so that a run     *)
(* that reached the file loop ends with every table taken up; and what      *)
(* each table contributes, its identifiers and the local fields of its      *)
(* records, is what its own rows give, the contributions standing in file   *)
(* order.                                                                   *)
C13_Table(k) == drop_total_row(uploaded_files[k])

C13_LacksColumn(k) ==
    /\ Len(C13_Table(k).rows) > 0
    /\ find_column_by_name(C13_Table(k), TRAFFIC_NAMES) = None

C13_CallsAfter(k) == IF k < Len(file_log) THEN file_log[k + 1].calls_before ELSE calls

\* whether the turn of file k is over
C13_Settled(k) == k < Len(file_log) \/ ppc # "fetch_wait"

C13_LocalFields(r) == <<r.video_id, r.impressions, r.impressions_ctr, r.csv_views,
                        r.average_view_duration, r.watch_time_hours>>

C13_Contributions ==
    /\ all_combined_data = Concat([k \in DOMAIN file_log |-> file_log[k].records])
    /\ \A k \in DOMAIN file_log :
         /\ C13_LacksColumn(k) =>
               /\ file_log[k].ids = << >>
               /\ file_log[k].records = << >>
               /\ C13_CallsAfter(k) = file_log[k].calls_before
               /\ k = Len(file_log) => fpc = "idle"
         /\ file_log[k].reason = "fetch" /\ C13_Settled(k) =>
               /\ C13_CallsAfter(k) = file_log[k].calls_before + 1
               /\ Len(file_log[k].records) = Len(file_log[k].ids)
         \* once the run is over: the table's part is what its own rows give
         /\ file_log[k].reason = "fetch" /\ ppc = "done" =>
               \A own \in {extract_video_data_from_csv(C13_Table(k))} :
                   /\ file_log[k].ids = own.video_ids
                   /\ \A j \in DOMAIN file_log[k].records :
                        C13_LocalFields(file_log[k].records[j])
                            = C13_LocalFields(own.csv_data[own.video_ids[j]])

C13_EveryTableTakenUp ==
    analyzer # None /\ source_video_url = << >> /\ ppc = "done" =>
        /\ Len(file_log) = Len(uploaded_files)
        /\ run_outcome \in {"success", "no_data"}

C13_MissingColumnSkipsOnlyThatTable == C13_Contributions /\ C13_EveryTableTakenUp

\* the first of two tables has no traffic source column; the second one has
\* been fetched and merged
C13_Witness ==
    /\ ppc = "done"
    /\ Len(uploaded_files) = 2
    /\ uploaded_files[1] = NoSourceTable
    /\ Len(file_log) = 2
    /\ file_log[1].reason = "missing_column"
    /\ Len(file_log[2].records) = 2
    /\ all_combined_data = file_log[2].records
    /\ run_outcome = "success"

-----------------------------------------------------------------------------
(* C19: with a valid credential, a reference video URL never keeps the      *)
(* uploaded tables from being processed: process_uploaded_files, called     *)
(* with a URL, ends with every table taken up, whatever became of the       *)
(* reference lookup.                                                        *)
C19_ReferenceUrlKeepsTables ==
    analyzer # None /\ source_video_url # << >> /\ ppc = "done" =>
        /\ Len(file_log) = Len(uploaded_files)
        /\ run_outcome \in {"success", "no_data"}

-----------------------------------------------------------------------------
(* One call of compare_source_with_video: the reference metadata as          *)
(* fetch_source_video_metadata builds it (or None, or a dict with a title    *)
(* only), the video's metadata as get_video_data builds it (or {})           *)

InitIdle ==
    /\ traffic_source = << >>
    /\ extracted = None
    /\ xpc = "done"
    /\ InitFetchVars
    /\ InitIngestVars
    /\ InitPipelineVars

SourceTitles == { <<"A","m","a","z","i","n","g"," ","C","a","t"," ","V","i","d","e","o","!","!">>, << >>, <<"c","a","t","2"," ","C","A","T","-","d","o","g">> }
SourceDescriptions == { << >>, <<"A"," ","c","a","t","."," ","A"," ","d","o","g","!">> }
SourceTagLists == { << >>, << <<"C","a","t","s">>, <<"f","u","n","n","y"," ","p","e","t","s">> >> }

VideoTitles == { <<"M","y"," ","A","m","a","z","i","n","g"," ","D","o","g">>, << >>, <<"D","o","g"," ","c","a","t","2"," ","c","a","t">> }
VideoDescriptions == { << >>, <<"D","O","G"," ","a","n","d"," ","a"," ","C","a","t">> }
VideoTagLists == { << >>, << <<"C","A","T","S">>, <<"d","o","g">>, <<"F","u","n","n","y"," ","P","e","t","s">> >>,
                   << <<"z","o","o">>, <<"c","a","t","s">>, <<"A","p","p","l","e">> >> }

InitCompare ==
    /\ InitIdle
    /\ \E source_meta \in
             { [title |-> t, description |-> d, tags |-> g] :
                   t \in SourceTitles, d \in SourceDescriptions, g \in SourceTagLists },
          video \in
             { [title |-> t, description |-> d, tags |-> g] :
                   t \in VideoTitles, d \in VideoDescriptions, g \in VideoTagLists },
          source_kind \in {"full", "title_only", "none"},
          video_kind \in {"full", "empty"} :
            call_args =
                [ op |-> "compare_source_with_video",
                  source_meta |-> IF source_kind = "full" THEN source_meta
                                  ELSE IF source_kind = "title_only"
                                       THEN [title |-> source_meta.title]
                                  ELSE << >>,
                  video_data |-> IF video_kind = "full" THEN video ELSE << >> ]
    /\ call_result = << >>
    /\ cpc = "call"

CompareCall ==
    /\ cpc = "call"
    /\ call_args.op = "compare_source_with_video"
    /\ call_result' = compare_source_with_video(call_args.source_meta, call_args.video_data)
    /\ cpc' = "done"
    /\ UNCHANGED <<call_args, extractVars, fetchVars, ingestVars, pipelineVars>>

NextCompare == CompareCall

SpecCompare == InitCompare /\ [][NextCompare]_vars

\* the lowercased alphanumeric words of a text: the maximal stretches of
\* letters and digits
C18_Words(text) ==
    LET t == lower(text)
    IN  { SubSeq(t, a, b) : <<a, b>> \in
            { p \in (1..Len(t)) \X (1..Len(t)) :
                /\ p[1] <= p[2]
                /\ \A k \in p[1]..p[2] : t[k] \in AlnumChars
                /\ p[1] = 1 \/ t[p[1] - 1] \notin AlnumChars
                /\ p[2] = Len(t) \/ t[p[2] + 1] \notin AlnumChars } }

C18_Tags(tags) == { lower(tags[k]) : k \in DOMAIN tags }

\* str is the members of S, each once, in ascending order, joined by ", "
C18_Renders(str, S) ==
    \E p \in [1..Cardinality(S) -> S] :
        /\ \A a, b \in DOMAIN p : a < b => str_lt(p[a], p[b])
        /\ str = join(CommaSpace, p)

C18_Field(d, key, default) == IF d # << >> /\ key \in DOMAIN d THEN d[key] ELSE default

\* C18: with reference metadata, compare_source_with_video returns the common
\* lowercased words of the two titles, of the two descriptions, the common
\* lowercased tags and the video's tags the reference lacks, each sorted and
\* joined by ", " ('Amazing Cat Video!!' against 'My Amazing Dog' gives
\* 'amazing'); without reference metadata all four fields are empty
C18_OverlapAsStated ==
    (cpc = "done" /\ call_args # << >> /\ call_args.op = "compare_source_with_video") =>
        LET src == call_args.source_meta
            vid == call_args.video_data
            r == call_result
            st == C18_Tags(C18_Field(src, "tags", << >>))
            vt == C18_Tags(C18_Field(vid, "tags", << >>))
        IN  IF src = << >>
            THEN /\ r.common_title_words = << >>
                 /\ r.common_description_words = << >>
                 /\ r.common_tags = << >>
                 /\ r.different_tags = << >>
            ELSE /\ C18_Renders(r.common_title_words,
                                C18_Words(C18_Field(src, "title", << >>))
                                    \cap C18_Words(C18_Field(vid, "title", << >>)))
                 /\ C18_Renders(r.common_description_words,
                                C18_Words(C18_Field(src, "description", << >>))
                                    \cap C18_Words(C18_Field(vid, "description", << >>)))
                 /\ C18_Renders(r.common_tags, st \cap vt)
                 /\ C18_Renders(r.different_tags, vt \ st)
                 /\ DOMAIN r = {"common_title_words", "common_description_words",
                                "common_tags", "different_tags"}
                 /\ (/\ C18_Field(src, "title", << >>) = <<"A","m","a","z","i","n","g"," ","C","a","t"," ","V","i","d","e","o","!","!">>
                     /\ C18_Field(vid, "title", << >>) = <<"M","y"," ","A","m","a","z","i","n","g"," ","D","o","g">>)
                        => r.common_title_words = <<"a","m","a","z","i","n","g">>

C18_Witness ==
    /\ cpc = "done" /\ call_args # << >>
    /\ call_args.op = "compare_source_with_video"
    /\ call_args.source_meta # << >>
    /\ call_args.video_data # << >>
    /\ call_args.source_meta.title = <<"A","m","a","z","i","n","g"," ","C","a","t"," ","V","i","d","e","o","!","!">>
    /\ call_args.video_data.title = <<"M","y"," ","A","m","a","z","i","n","g"," ","D","o","g">>
    /\ call_result.common_title_words = <<"a","m","a","z","i","n","g">>
    /\ call_result.common_description_words = <<"a",","," ","c","a","t",","," ","d","o","g">>
    /\ call_result.common_tags = <<"c","a","t","s">>
    /\ call_result.different_tags = <<"a","p","p","l","e",","," ","z","o","o">>

-----------------------------------------------------------------------------
(* One call of combine_csv_and_api_data: a list of distinct identifiers,     *)
(* local records for some identifiers, remote metadata for some (also for    *)
(* identifiers not in the list), with or without reference metadata          *)

ID_C == <<"n","o","t","-","h","e","l","d","_","_","0">>

CombineIds == {ID_A, ID_B, ID_C}

CombineLists ==
    { ids \in UNION { [1..n -> CombineIds] : n \in 0..Cardinality(CombineIds) } :
        \A a, b \in DOMAIN ids : a # b => ids[a] # ids[b] }

\* the local record extract_video_data_from_csv builds for a row naming v
LocalRecord(v) ==
    [ video_id |-> v,
      impressions |-> PyInt(1000 + ord(v[1])),
      impressions_ctr |-> PyFloat(45),
      csv_views |-> PyInt(ord(v[2])),
      average_view_duration |-> <<"0",":","0","3",":","2","5">>,
      watch_time_hours |-> PyFloat(12) ]

ReferenceMetadata ==
    [ title |-> <<"A","m","a","z","i","n","g"," ","C","l","i","p">>, description |-> <<"a","l","l"," ","a","b","o","u","t"," ","i","t">>,
      tags |-> << <<"T","a","g">>, <<"c","a","t","s">> >> ]

InitCombine ==
    /\ InitIdle
    /\ \E ids \in CombineLists, local \in SUBSET CombineIds, remote \in SUBSET CombineIds,
          source_metadata \in {None, Some(ReferenceMetadata)} :
            call_args =
                [ op |-> "combine_csv_and_api_data",
                  video_ids |-> ids,
                  csv_data |-> [v \in local |-> LocalRecord(v)],
                  video_data |-> [v \in remote |-> ItemRecord(RemoteItem(v))],
                  source_metadata |-> IF source_metadata = None THEN None
                                      ELSE source_metadata[1] ]
    /\ call_result = << >>
    /\ cpc = "call"

CombineCall ==
    /\ cpc = "call"
    /\ call_args.op = "combine_csv_and_api_data"
    /\ call_result' = combine_csv_and_api_data(call_args.video_ids, call_args.csv_data,
                                               call_args.video_data,
                                               call_args.source_metadata)
    /\ cpc' = "done"
    /\ UNCHANGED <<call_args, extractVars, fetchVars, ingestVars, pipelineVars>>

NextCombine == CombineCall

SpecCombine == InitCombine /\ [][NextCombine]_vars

C14_Combined == cpc = "done" /\ call_args # << >> /\ call_args.op = "combine_csv_and_api_data"

C14_Position(ids, v) == CHOOSE k \in DOMAIN ids : ids[k] = v

\* C14: combine_csv_and_api_data emits exactly one record for each identifier
\* of the list that has a local record, in list order, and none for an
\* identifier without a local record, whatever the remote metadata holds
C14_OneRecordPerLocalIdentifier ==
    C14_Combined =>
        LET ids == call_args.video_ids
            out == call_result
        IN  /\ \A k \in DOMAIN ids :
                  Cardinality({ j \in DOMAIN out : out[j].video_id = ids[k] })
                      = IF ids[k] \in DOMAIN call_args.csv_data THEN 1 ELSE 0
            /\ \A j \in DOMAIN out : out[j].video_id \in SeqToSet(ids)
            /\ \A a, b \in DOMAIN out :
                  a < b => C14_Position(ids, out[a].video_id)
                               < C14_Position(ids, out[b].video_id)

C14_Witness ==
    /\ C14_Combined
    /\ call_args.video_ids = <<ID_B, ID_C, ID_A>>
    /\ DOMAIN call_args.csv_data = {ID_A, ID_B}
    /\ DOMAIN call_args.video_data = {ID_A, ID_C}
    /\ Len(call_result) = 2
    /\ call_result[1].video_id = ID_B
    /\ call_result[2].video_id = ID_A

OverlapKeys == {"common_title_words", "common_description_words", "common_tags",
                "different_tags"}

LocalKeys == {"video_id", "impressions", "impressions_ctr", "csv_views",
              "average_view_duration", "watch_time_hours"}

\* C15: the record of an identifier with a local record and no remote metadata
\* keeps the local fields and carries title 'Video ID: <id>', empty
\* published_at, api_views 0, empty thumbnail, category and content_type
\* 'Unknown', and no overlap metric that is not empty
C15_DefaultsWithoutRemote ==
    C14_Combined =>
        \A j \in DOMAIN call_result :
            LET rec == call_result[j]
                v == rec.video_id
            IN  v \notin DOMAIN call_args.video_data =>
                    /\ \A key \in LocalKeys : rec[key] = call_args.csv_data[v][key]
                    /\ rec.title = <<"V","i","d","e","o"," ","I","D",":"," ">> \o v
                    /\ rec.published_at = << >>
                    /\ rec.api_views = 0
                    /\ rec.thumbnail_url = << >>
                    /\ rec.category = "Unknown"
                    /\ rec.content_type = "Unknown"
                    /\ \A key \in OverlapKeys : key \in DOMAIN rec => rec[key] = << >>
                    /\ call_args.source_metadata # << >> => OverlapKeys \subseteq DOMAIN rec

C15_Witness ==
    /\ C14_Combined
    /\ call_args.video_ids = <<ID_A, ID_B>>
    /\ DOMAIN call_args.csv_data = {ID_A, ID_B}
    /\ DOMAIN call_args.video_data = {ID_A}
    /\ call_args.source_metadata # << >>
    /\ Len(call_result) = 2
    /\ call_result[1].title = <<"C","l","i","p">>
    /\ call_result[1].common_tags = <<"t","a","g">>
    /\ call_result[2].title = <<"V","i","d","e","o"," ","I","D",":"," ">> \o ID_B
    /\ call_result[2].impressions = PyInt(1000 + ord("a"))
    /\ call_result[2].common_tags = << >>

-----------------------------------------------------------------------------
(* One call of categorize_by_date at the time StartTime: timestamps a whole  *)
(* number of calendar days before the day of the call, at several times of   *)
(* the day, naive, with Z or with an offset; a date alone; and texts that    *)
(* are no timestamp                                                          *)

\* calendar dates, back days before ClockEpoch
PublishedDays ==
    << [back |-> -1, date |-> <<"2","0","2","4","-","0","6","-","0","2">>],
       [back |-> 0, date |-> <<"2","0","2","4","-","0","6","-","0","1">>],
       [back |-> 14, date |-> <<"2","0","2","4","-","0","5","-","1","8">>],
       [back |-> 15, date |-> <<"2","0","2","4","-","0","5","-","1","7">>],
       [back |-> 28, date |-> <<"2","0","2","4","-","0","5","-","0","4">>],
       [back |-> 29, date |-> <<"2","0","2","4","-","0","5","-","0","3">>],
       [back |-> 90, date |-> <<"2","0","2","4","-","0","3","-","0","3">>],
       [back |-> 91, date |-> <<"2","0","2","4","-","0","3","-","0","2">>],
       [back |-> 400, date |-> <<"2","0","2","3","-","0","4","-","2","8">>] >>

\* a time of the day and its milliseconds
PublishedTimes ==
    << [text |-> <<"T","0","0",":","0","0",":","0","0">>, ms |-> 0],
       [text |-> <<"T","0","0",":","0","0",":","0","2">>, ms |-> 2000],
       [text |-> <<" ","1","2",":","3","0",":","0","0">>, ms |-> 45000000],
       [text |-> <<"T","2","3",":","5","9",":","5","9">>, ms |-> 86399000] >>

\* a suffix and the milliseconds local time is ahead of UTC
PublishedZones ==
    << [text |-> << >>, ahead |-> 0],
       [text |-> <<"Z">>, ahead |-> 0],
       [text |-> <<"+","0","5",":","3","0">>, ahead |-> 19800000],
       [text |-> <<"-","0","8",":","0","0">>, ahead |-> 0 - 28800000] >>

NoTimestamps ==
    { << >>, <<"2","0","2","4">>, <<"n","o","t"," ","a"," ","d","a","t","e">>, <<"2","0","2","4","-","1","3","-","0","1","T","0","0",":","0","0",":","0","0","Z">>, <<"2","0","2","4","-","0","2","-","3","0">>,
      <<"2","0","2","4","-","0","5","-","1","8","T","2","5",":","0","0",":","0","0","Z">>, <<"2","0","2","4","-","0","5","-","1","8","T","1","2",":","0","0",":","0","0","+","0","5","3","0","Z">>, <<"Z","Z","Z","Z","-","0","5","-","1","8">> }

InitCategorize ==
    /\ InitIdle
    /\ \/ \E e \in DOMAIN PublishedDays, t \in DOMAIN PublishedTimes,
             z \in DOMAIN PublishedZones :
               call_args = [ op |-> "categorize_by_date",
                             published_date |-> PublishedDays[e].date
                                                  \o PublishedTimes[t].text
                                                  \o PublishedZones[z].text ]
       \/ \E e \in DOMAIN PublishedDays :
               call_args = [ op |-> "categorize_by_date",
                             published_date |-> PublishedDays[e].date ]
       \/ \E s \in NoTimestamps :
               call_args = [ op |-> "categorize_by_date", published_date |-> s ]
    /\ call_result = << >>
    /\ cpc = "call"

CategorizeCall ==
    /\ cpc = "call"
    /\ call_args.op = "categorize_by_date"
    /\ call_result' = categorize_by_date(call_args.published_date)
    /\ cpc' = "done"
    /\ UNCHANGED <<call_args, extractVars, fetchVars, ingestVars, pipelineVars>>

NextCategorize == CategorizeCall

SpecCategorize == InitCategorize /\ [][NextCategorize]_vars

C16_Categorized == cpc = "done" /\ call_args # << >> /\ call_args.op = "categorize_by_date"

C16_Bucket(d) ==
    IF d <= 14 THEN "Last 2 weeks"
    ELSE IF 15 <= d /\ d <= 28 THEN "2-4 weeks ago"
    ELSE IF 29 <= d /\ d <= 90 THEN "1-3 months ago"
    ELSE "More than 3 months ago"

\* whole days from a timestamp back calendar days ago, at ms of its day on a
\* clock ahead of UTC, to now
C16_WholeDays(back, ms, ahead) ==
    back + (((now % DAY_MS) - ms + ahead + 2 * DAY_MS) \div DAY_MS) - 2

\* C16: categorize_by_date returns one of the five buckets: with d the whole
\* days from the published timestamp to now, 'Last 2 weeks' for d <= 14,
\* '2-4 weeks ago' for 15..28, '1-3 months ago' for 29..90, 'More than 3
\* months ago' from 91 on, and 'Unknown' for an empty, missing or unparsable
\* timestamp
C16_BucketByWholeDays ==
    C16_Categorized =>
        /\ call_result \in {"Last 2 weeks", "2-4 weeks ago", "1-3 months ago",
                            "More than 3 months ago", "Unknown"}
        /\ call_args.published_date \in NoTimestamps => call_result = "Unknown"
        /\ \A e \in DOMAIN PublishedDays :
              /\ call_args.published_date = PublishedDays[e].date
                    => call_result = C16_Bucket(C16_WholeDays(PublishedDays[e].back, 0, 0))
              /\ \A t \in DOMAIN PublishedTimes, z \in DOMAIN PublishedZones :
                    call_args.published_date = PublishedDays[e].date
                                                 \o PublishedTimes[t].text
                                                 \o PublishedZones[z].text
                    => call_result = C16_Bucket(C16_WholeDays(PublishedDays[e].back,
                                                              PublishedTimes[t].ms,
                                                              PublishedZones[z].ahead))

C16_Witness ==
    /\ C16_Categorized
    /\ call_args.published_date = <<"2","0","2","4","-","0","3","-","0","3","T","0","0",":","0","0",":","0","0","Z">>
    /\ call_result = "1-3 months ago"

-----------------------------------------------------------------------------
\* call a executed the fetch and gave up at least one batch
C20_Degraded(a) == ~history[a].hit /\ history[a].failed # << >>

\* a call of the same list as call a, begun at start, less than the ttl after
\* the return of call a
C20_Repeats(a, ids, start) ==
    /\ ids = history[a].ids
    /\ start >= history[a].at
    /\ start < history[a].at + TTL_MS

\* the call under way executes the fetch although it repeats a degraded call
C20_RepeatExecutes ==
    /\ fpc = "run"
    /\ \E a \in DOMAIN history : C20_Degraded(a) /\ C20_Repeats(a, video_ids, started)

C20_BatchAbsent(batch, data) == \A k \in DOMAIN batch.ids : batch.ids[k] \notin DOMAIN data

\* the claim as stated: the mapping served lacks every identifier of every
\* failed batch
C20_ServedLackingFailedBatches ==
    /\ ~C20_RepeatExecutes
    /\ \A a, b \in DOMAIN history :
          (a < b /\ C20_Degraded(a) /\ C20_Repeats(a, history[b].ids, history[b].start))
              => /\ history[b].hit
                 /\ history[b].requests = 0
                 /\ history[b].result.data = history[a].result.data
                 /\ \A f \in DOMAIN history[a].failed :
                        C20_BatchAbsent(history[a].failed[f], history[b].result.data)

\* C20, amended: after a call that gave up some or all batches, a call with
\* the same list less than 1 hour after its return, under any credential,
\* issues no request and returns the mapping that call returned: without the
\* identifiers of the batches that exhausted their retries or got an error
\* payload, and with the items stored before the failure of a batch given up
\* while its items were processed
C20_DegradedResultServedAsReturned ==
    /\ ~C20_RepeatExecutes
    /\ \A a, b \in DOMAIN history :
          (a < b /\ C20_Degraded(a) /\ C20_Repeats(a, history[b].ids, history[b].start))
              => /\ history[b].hit
                 /\ history[b].requests = 0
                 /\ history[b].result = history[a].result
                 /\ \A f \in DOMAIN history[a].failed :
                        history[a].failed[f].cause # "malformed_item"
                            => C20_BatchAbsent(history[a].failed[f], history[b].result.data)

\* the first call, under one credential, fetches the first batch and gives up
\* the second; the second call, under the other credential, is served that
\* mapping after the pause
C20_Witness ==
    /\ Len(history) >= 2
    /\ history[1].key = API_KEY_1
    /\ history[2].key = API_KEY_2
    /\ history[2].ids = history[1].ids
    /\ ~history[1].hit
    /\ Len(history[1].failed) = 1
    /\ history[1].failed[1].ids = <<MkId(BATCH_SIZE + 1)>>
    /\ history[1].failed[1].cause = "exhausted"
    /\ MkId(1) \in DOMAIN history[1].result.data
    /\ history[2].start = history[1].at + KeyedPause
    /\ history[2].hit
    /\ history[2].requests = 0
    /\ history[2].result = history[1].result
    /\ MkId(BATCH_SIZE + 1) \notin DOMAIN history[2].result.data

=============================================================================
